---- MODULE Spec2Model ----
(***************************************************************************)
(* mybot: the session engine that bridges a chat to the codex CLI.         *)
(*                                                                         *)
(* Modelled here: core.SessionManager (session_manager.go), the exec       *)
(* (JSON-lines) variant of the codex adapter (codex.go: startExec,         *)
(* sendExec, stopExec, readJSONL, the thread-state store) and the memory   *)
(* and compaction engine (memory file: onTurnCompleted, compactChat).      *)
(*                                                                         *)
(* Callers are the goroutines of the telegram front-end: "main" is the     *)
(* update loop (handleMessage: Send, /new, /cancel, one call at a time),   *)
(* "sched" is a scheduler task goroutine (RunScheduler: Send only).        *)
(***************************************************************************)
EXTENDS Integers, Sequences, FiniteSets, TLC

\* ------------------------------------------------------------------ bounds
MaxCalls == 3          \* calls made on the SessionManager (and restarts)
MaxLines == 2          \* stdout records one subprocess turn emits
EventsCap == 3         \* capacity of a handle's event channel (256 in the source)
MaxPieces == 4         \* pieces of one chunk read from the pty

Chats == {1, 2}                     \* telegram chat ids (private chats: positive)
Procs == {"main", "sched"}          \* caller goroutines
ThreadIDs == {"T1", "T2"}           \* thread ids the codex CLI may report
Inputs == {"", "m"}                 \* message text after TrimSpace
SchedChats == {1}                   \* the chats that own a scheduled task
MemChats == {1, 2}     \* chats whose turns report usage
GroupChats == {0 - 1}               \* a telegram group chat: its id is negative
AllChats == Chats \cup GroupChats

VARIABLES
    sessions,    \* SessionManager.sessions: chat id -> index into sess (0 = nil)
    sess,        \* every Session allocated so far, with its handleExec
    threads,     \* Adapter.threads: chatKey -> thread id (a Go map)
    stateFile,   \* <logDir>/state.json: whether it exists, and its contents
    pc,          \* per caller goroutine: where it is
    loc,         \* per caller goroutine: its local variables
    calls,       \* number of calls made so far
    signalled,   \* subprocesses (named by the caller that runs them) sent SIGINT
    stopped,     \* history: handles newWithID called adapter.Stop on
    replaced,    \* history: sessions newWithID found as prev and overwrote
    seen,        \* history: per chatKey, the thread ids adopted from thread.started
                 \*   since the last fresh session or compaction of the chat
    mem,         \* Adapter.mem: chatKey -> chatMemory (a Go map)
    memFile,     \* <logDir>/memory.json
    compacting,  \* Adapter.compacting: chatKey -> bool (a Go map)
    tasks,       \* the background compaction goroutines that are alive
    nTasks,      \* number of compaction goroutines started so far
    hookLog,     \* history: per chatKey, the outcome of its first usage hooks
    pumping,     \* the Sessions a pumpEvents goroutine is draining
    waitErr,     \* history: the handle and error of the last cmd.Wait observed
    term,        \* readLoopPTY of one interactive handle: the chunk read from the
                 \*   pty, what is forwarded of it and what was written to stdin
    disk,        \* <logDir>/state.json and memory.json with their .tmp files as
                 \*   byte sequences, and the save that is under way
    fn,          \* one call of a function of the program: its arguments and,
                 \*   once it has returned, its result
    store        \* ScheduleStore: its tasks, schedules.json, and the last call

sessVars == <<sessions, sess, threads, stateFile, pc, loc, calls, signalled, stopped, replaced, seen>>

memVars == <<mem, memFile, compacting, tasks, nTasks, hookLog>>

vars == <<sessVars, memVars, pumping, waitErr, term, disk, fn, store>>

\* ------------------------------------------------------------ Go map helpers
EmptyMap == [k \in {} |-> ""]

MapGet(m, k) == IF k \in DOMAIN m THEN m[k] ELSE ""

MapPut(m, k, v) == [x \in (DOMAIN m) \cup {k} |-> IF x = k THEN v ELSE m[x]]

MapDel(m, k) == [x \in (DOMAIN m) \ {k} |-> m[x]]

\* ------------------------------------------------------------- session ids
\* A SessionID is kept as the list of its "-"-separated parts, so that
\* parseChatKey splits what Sprintf joined.
DecParts(n) == IF n < 0 THEN <<"", ToString(0 - n)>> ELSE <<ToString(n)>>

FreshSessionID(chatID) == <<"chat">> \o DecParts(chatID) \o <<"ts", "fresh">>

ResumeSessionID(chatID) == <<"chat">> \o DecParts(chatID) \o <<"ts">>

parseChatKey(sessionID) ==
    LET hasPrefix == Len(sessionID) >= 2 /\ sessionID[1] = "chat"
        parts     == Tail(sessionID)
    IN  [chatKey |-> IF hasPrefix /\ Len(parts) >= 2 /\ parts[1] # ""
                     THEN parts[1] ELSE "",
         fresh   |-> Len(sessionID) >= 2 /\ sessionID[Len(sessionID)] = "fresh"]

\* ------------------------------------------------------- thread-state store
\* state.json holds {"threads": {...}}: the set of key/value pairs.
EncodeState(m) == {<<k, m[k]>> : k \in DOMAIN m}

DecodeState(f) == [k \in {kv[1] : kv \in f} |-> (CHOOSE kv \in f : kv[1] = k)[2]]

NoFile == [exists |-> FALSE, body |-> {}]

saveStateLocked(m) == [exists |-> TRUE, body |-> EncodeState(m)]

loadState(f) == IF f.exists THEN DecodeState(f.body) ELSE EmptyMap

getThread(chatKey) == IF chatKey = "" THEN "" ELSE MapGet(threads, chatKey)

\* a setThread that stores an empty thread id like any other
setThreadMapUnchecked(chatKey, threadID) ==
    IF chatKey = "" THEN threads
    ELSE IF MapGet(threads, chatKey) = threadID /\ chatKey \in DOMAIN threads THEN threads
    ELSE MapPut(threads, chatKey, threadID)

\* setThread: the new map (unchanged when nothing is to be written)
setThreadMap(chatKey, threadID) ==
    IF chatKey = "" \/ threadID = "" THEN threads
    ELSE IF MapGet(threads, chatKey) = threadID THEN threads
    ELSE MapPut(threads, chatKey, threadID)

\* clearThread: the new map
clearThreadMap(chatKey) ==
    IF chatKey = "" THEN threads
    ELSE IF chatKey \notin DOMAIN threads THEN threads
    ELSE MapDel(threads, chatKey)

\* a store operation writes the file exactly when it changed the map
StoreThreads(m) ==
    /\ threads' = m
    /\ stateFile' = IF m = threads THEN stateFile ELSE saveStateLocked(m)

\* ------------------------------------------------------------------- locals
NoLoc == [chat |-> 0, fresh |-> FALSE, s |-> 0, lk |-> 0, new |-> 0, old |-> 0,
          ret |-> "", input |-> "", tid |-> "", n |-> 0, last |-> "", done |-> FALSE,
          hook |-> "", htid |-> "", turnsNow |-> 0,
          \* (e: the stderr lines read in the turn)
          rec |-> [type |-> "", thread_id |-> "",
                   usage |-> [InputTokens |-> 0, OutputTokens |-> 0],
                   item |-> [Type |-> "", Text |-> <<>>]],  \* history: the line read last
          bad |-> FALSE,
          e |-> 0,                                   \* history: a bad line was read
          err |-> ""]     \* history: the error the caller's last call returned

\* no chunk has been read
NoTerm == [st |-> "idle", chunk |-> <<>>, out |-> <<>>, removed |-> 0, stdin |-> <<>>]

\* NewScheduleStore in a log directory without schedules.json
NoStore == [Tasks |-> <<>>,       \* s.data.Tasks
            file |-> <<>>,        \* the tasks in schedules.json
            created |-> 0,        \* tasks created so far (the clock their ids are taken from)
            last |-> [op |-> "", chat |-> 0, time |-> <<>>, arg |-> "", err |-> ""]]
                                  \* history: the last call, its arguments and its error

\* no function has been called
NoFn == [st |-> "idle", in |-> <<>>, out |-> <<>>]

\* a file that does not exist
NoBytes == [exists |-> FALSE, bytes |-> <<>>]

\* the log directory of a bot that never ran, and no save under way
NoDisk == [state |-> NoBytes, stateTmp |-> NoBytes, memory |-> NoBytes, memoryTmp |-> NoBytes,
           save |-> "",          \* the file of the last save begun: "state" or "memory"
           at |-> "idle",        \* the save's position: idle, open, write, rename
           buf |-> <<>>,         \* the bytes json.MarshalIndent returned to it
           prev |-> NoBytes,     \* history: the file as it was when the save began
           failed |-> FALSE]     \* history: an os.WriteFile returned an error

ChatKeys == {ToString(c) : c \in Chats}

SIdx == 1..Len(sess)

\* the state of a bot process that has just started in an empty log directory
Started0 ==
    /\ sessions = [c \in AllChats |-> 0]
    /\ sess = <<>>
    /\ threads = EmptyMap
    /\ stateFile = NoFile
    /\ pc = [p \in Procs |-> "idle"]
    /\ loc = [p \in Procs |-> NoLoc]
    /\ calls = 0
    /\ signalled = {}
    /\ stopped = {}
    /\ replaced = {}
    /\ seen = [k \in ChatKeys |-> {}]
    /\ mem = EmptyMap
    /\ memFile = NoFile
    /\ compacting = EmptyMap
    /\ tasks = {}
    /\ nTasks = 0
    /\ hookLog = [k \in ChatKeys |-> <<>>]
    /\ pumping = {}
    /\ waitErr = [h |-> 0, err |-> ""]

Init == Started0 /\ term = NoTerm /\ disk = NoDisk /\ fn = NoFn /\ store = NoStore

Goto(p, label) == pc' = [pc EXCEPT ![p] = label]

Return(p) ==
    /\ pc' = [pc EXCEPT ![p] = "idle"]
    /\ loc' = [loc EXCEPT ![p] = NoLoc]

\* handleMessage / RunScheduler after a call returned Session s:
\* go pumpEvents(bot, cfg, chatID, s); a second pumper of the same Session
\* finds the gate taken and returns at once
goPumpEvents(s) == pumping' = IF s # 0 THEN pumping \cup {s} ELSE pumping

\* -------------------------------------------------------- calls (front-end)
\* handleMessage / RunScheduler: sessions.Send(ctx, chatID, text), entered
\* with its first statement, SessionManager.GetOrCreate (the map lookup)
CallSend(p, c, in) ==
    /\ pc[p] = "idle" /\ calls < MaxCalls
    /\ p = "sched" => c \in SchedChats /\ in # ""   \* the store rejects an empty prompt
    /\ calls' = calls + 1
    /\ IF sessions[c] # 0
       THEN /\ Goto(p, "lock")
            /\ loc' = [loc EXCEPT ![p] = [NoLoc EXCEPT !.chat = c, !.input = in,
                                                         !.s = sessions[c]]]
       ELSE /\ Goto(p, "start2")     \* return m.NewResume(ctx, chatID)
            /\ loc' = [loc EXCEPT ![p] = [NoLoc EXCEPT !.chat = c, !.input = in,
                                                         !.ret = "lock"]]
    /\ UNCHANGED <<sessions, sess, threads, stateFile, signalled, stopped, replaced, seen, memVars>>
    /\ UNCHANGED <<pumping, waitErr, term, disk, fn, store>>

\* handleMessage "/new": sessions.NewFresh(ctx, chatID)
NewFresh(p, c) ==
    /\ p = "main" /\ pc[p] = "idle" /\ calls < MaxCalls
    /\ calls' = calls + 1
    /\ Goto(p, "start")
    /\ loc' = [loc EXCEPT ![p] = [NoLoc EXCEPT !.chat = c, !.fresh = TRUE, !.ret = "done"]]
    /\ UNCHANGED <<sessions, sess, threads, stateFile, signalled, stopped, replaced, seen, memVars>>
    /\ UNCHANGED <<pumping, waitErr, term, disk, fn, store>>

\* Adapter.startExec, first half: parseChatKey and clearThread for a fresh id
StartClear(p) ==
    /\ pc[p] = "start"
    /\ LET sid == IF loc[p].fresh THEN FreshSessionID(loc[p].chat)
                                  ELSE ResumeSessionID(loc[p].chat)
           k   == parseChatKey(sid)
       IN  IF k.fresh /\ k.chatKey # ""
           THEN /\ StoreThreads(clearThreadMap(k.chatKey))
                /\ seen' = [seen EXCEPT ![k.chatKey] = {}]
           ELSE UNCHANGED <<threads, stateFile, seen>>
    /\ Goto(p, "start2")
    /\ UNCHANGED <<sessions, sess, loc, calls, signalled, stopped, replaced, memVars>>
    /\ UNCHANGED <<pumping, waitErr, term, disk, fn, store>>

\* core.Event; Text is a sequence of characters (or of longer pieces)
Event(typ, text) == [Type |-> typ, Text |-> text, Code |-> 0]

\* startExec: the status events put into the new handle's channel
StartEvents(tid) ==
    (IF tid # "" THEN <<Event("status", <<"resumed thread_id=", tid, "\n">>)>> ELSE <<>>)
       \o <<Event("status", <<"started mode=exec", "\n">>)>>

\* the handleExec startExec builds, and the Session newWithID wraps it in
NewSession(chatID, sid) ==
    LET k == parseChatKey(sid)
    IN  [chat |-> chatID, sid |-> sid, running |-> TRUE, inMu |-> "none",
         chatKey |-> k.chatKey,
         threadID |-> IF k.chatKey # "" THEN getThread(k.chatKey) ELSE "",
         cmd |-> "none",
         kind |-> "exec",      \* *handleExec
         stopErr |-> "",       \* history: what the last Stop of the handle returned
         events |-> StartEvents(IF k.chatKey # "" THEN getThread(k.chatKey) ELSE ""),
         closed |-> 0,         \* number of close(events) calls made
         dropped |-> Event("", <<>>),  \* history: the last event emit had no room for
         got |-> 0,            \* history: the number of the last numbered message
                               \*   the consumer received
         first |-> TRUE,       \* history: no turn was started on the handle yet
         adopted |-> FALSE]    \* history: threadID was taken from a thread.started

\* Adapter.startExec, second half (getThread into the new handle), and
\* newWithID up to setRunning(true)
StartHandle(p) ==
    /\ pc[p] = "start2"
    /\ LET sid == IF loc[p].fresh THEN FreshSessionID(loc[p].chat)
                                  ELSE ResumeSessionID(loc[p].chat)
       IN  sess' = Append(sess, NewSession(loc[p].chat, sid))
    /\ loc' = [loc EXCEPT ![p].new = Len(sess) + 1]
    /\ Goto(p, "install")
    /\ UNCHANGED <<sessions, threads, stateFile, calls, signalled, stopped, replaced, seen, memVars>>
    /\ UNCHANGED <<pumping, waitErr, term, disk, fn, store>>

\* newWithID: the m.mu critical section
Install(p) ==
    /\ pc[p] = "install"
    /\ LET c    == loc[p].chat
           prev == sessions[c]
       IN  /\ sessions' = [sessions EXCEPT ![c] = loc[p].new]
           /\ loc' = [loc EXCEPT ![p].old = prev]
           /\ replaced' = IF prev # 0 THEN replaced \cup {prev} ELSE replaced
    /\ Goto(p, "stopOld")
    /\ UNCHANGED <<sess, threads, stateFile, calls, signalled, stopped, seen, memVars>>
    /\ UNCHANGED <<pumping, waitErr, term, disk, fn, store>>

\* Adapter.stopExec: with a subprocess running on the handle, SIGINT to its
\* process group (the subprocess ends when it chooses to: Exit); else a no-op
stopExec(h) == IF sess[h].cmd = "none" THEN signalled ELSE signalled \cup {sess[h].cmd}

\* the *handle startInteractive builds (pty mode) around the child it has
\* started, and the Session newWithID wraps it in
NewHandle(chatID, sid) ==
    [chat |-> chatID, sid |-> sid, running |-> TRUE, inMu |-> "none",
     kind |-> "pty",
     child |-> "alive",    \* the process: alive, exited (not waited for yet), reaped
     end |-> "",           \* how the child ended
     wl |-> "wait",        \* waitLoop: wait, emit, close, done
     stdin |-> 0,          \* inputs written to the pty
     ptyClosed |-> FALSE,  \* h.pty.Close() was called
     once |-> FALSE,       \* h.once has run
     closed |-> 0,         \* number of close(h.events) calls made
     exits |-> 0,          \* history: exit Events sent
     stopErr |-> "",       \* history: what the last Stop of the handle returned
     events |-> <<Event("status", <<"started pid=", "mode=pty">>)>>]

\* Adapter.Stop, case *handle: SIGINT to the child; os.Process.Signal
\* returns an error once the child has been waited for
stopInteractive(h) ==
    [sess EXCEPT ![h].stopErr = IF sess[h].child = "reaped"
                            THEN "os: process already finished" ELSE ""]

\* Adapter.Stop: the type switch on the handle
Stop(h) ==
    IF sess[h].kind = "exec"
    THEN signalled' = stopExec(h) /\ UNCHANGED sess
    ELSE sess' = stopInteractive(h) /\ UNCHANGED signalled

\* a newWithID that returns the new Session without stopping the old handle
StopOldForgotten(p) ==
    /\ pc[p] = "stopOld"
    /\ IF loc[p].ret = "done"
       THEN Return(p) /\ goPumpEvents(loc[p].new)
       ELSE /\ Goto(p, loc[p].ret)
            /\ loc' = [loc EXCEPT ![p].s = loc[p].new, ![p].new = 0, ![p].old = 0]
            /\ UNCHANGED pumping
    /\ UNCHANGED <<waitErr, term, disk, fn, store>>
    /\ UNCHANGED <<sessions, sess, threads, stateFile, calls, signalled, stopped, replaced,
                   seen, memVars>>

\* newWithID: stop the old handle, return the new Session
StopOld(p) ==
    /\ pc[p] = "stopOld"
    /\ IF loc[p].old # 0
       THEN /\ Stop(loc[p].old)
            /\ stopped' = stopped \cup {loc[p].old}
       ELSE UNCHANGED <<signalled, stopped, sess>>
    /\ IF loc[p].ret = "done"
       THEN Return(p) /\ goPumpEvents(loc[p].new)
       ELSE /\ Goto(p, loc[p].ret)
            /\ loc' = [loc EXCEPT ![p].s = loc[p].new, ![p].new = 0, ![p].old = 0]
            /\ UNCHANGED pumping
    /\ UNCHANGED <<waitErr, term, disk, fn, store>>
    /\ UNCHANGED <<sessions, threads, stateFile, calls, replaced, seen, memVars>>

\* Send: s.inMu.Lock(), then if !s.IsRunning() { s2 := NewResume(); s = s2 }
Lock(p) ==
    /\ pc[p] = "lock"
    /\ sess[loc[p].s].inMu = "none"
    /\ sess' = [sess EXCEPT ![loc[p].s].inMu = p]
    /\ IF sess[loc[p].s].running
       THEN /\ Goto(p, "adapterSend")
            /\ loc' = [loc EXCEPT ![p].lk = loc[p].s]
       ELSE /\ Goto(p, "start2")
            /\ loc' = [loc EXCEPT ![p].lk = loc[p].s, ![p].fresh = FALSE,
                                   ![p].ret = "adapterSend"]
    /\ UNCHANGED <<sessions, threads, stateFile, calls, signalled, stopped, replaced, seen, memVars>>
    /\ UNCHANGED <<pumping, waitErr, term, disk, fn, store>>

\* handleMessage / RunScheduler after sessions.Send returned (s, err): the
\* update loop pumps whenever s is not nil, the scheduler only without error
AfterSend(p, err) ==
    /\ IF err = "" \/ p = "main" THEN goPumpEvents(loc[p].s) ELSE UNCHANGED pumping
    /\ Return(p)

\* Send's return with the deferred s.inMu.Unlock() (of the Session locked):
\* the caller has (s, err), err being the error of adapter.Send
Unlock(p, err) ==
    /\ sess' = [sess EXCEPT ![loc[p].lk].inMu = "none"]
    /\ AfterSend(p, err)

ExitCodes == {0, 1}     \* exit statuses of the codex subprocess

\* Adapter.sendExec up to hh.running = cmd: an empty prompt returns at once,
\* otherwise the argv is built from hh.threadID and the subprocess is started
\* (cmd.Start may fail, and sendExec returns the error)
sendExec(p) ==
    /\ pc[p] = "adapterSend"
    /\ LET h == loc[p].s
       IN  \/ /\ loc[p].input = ""
              /\ Unlock(p, "")
           \/ /\ loc[p].input # ""
              /\ \E started \in BOOLEAN :
                    IF started
                    THEN /\ sess' = [sess EXCEPT ![h].cmd = p, ![h].first = FALSE]
                         /\ loc' = [loc EXCEPT ![p].tid = sess[h].threadID]
                         /\ Goto(p, "run")
                         /\ UNCHANGED <<pumping, waitErr, term, disk, fn, store>>
                    ELSE Unlock(p, "start")
    /\ UNCHANGED <<sessions, threads, stateFile, calls, signalled, stopped, replaced, seen, memVars>>
    /\ UNCHANGED <<waitErr, term, disk, fn, store>>

\* the records a codex subprocess may write to its standard output;
\* turn.completed is the last record of a turn
NoUsage == [InputTokens |-> 0, OutputTokens |-> 0]

Usages == {[InputTokens |-> 100, OutputTokens |-> 50]}

\* codexJSON.Item: nil, or an item with its type and text
NoItem == [Type |-> "", Text |-> <<>>]

Texts == {<<>>, <<"a">>, <<"a", "\n">>}

Items == [Type : {"agent_message"}, Text : Texts] \cup [Type : {"reasoning"}, Text : {<<"a">>}]

ThreadRecords ==
    [type : {"thread.started"}, thread_id : ThreadIDs, usage : {NoUsage}, item : {NoItem}]

UsageRecords ==
    [type : {"turn.completed"}, thread_id : {""}, usage : Usages, item : {NoItem}]

Records == ThreadRecords \cup UsageRecords

ItemRecords ==
    [type : {"item.completed"}, thread_id : {""}, usage : {NoUsage},
     item : Items \cup {NoItem}]

\* a record of a type readJSONL has no case for
OtherRecords ==
    [type : {"turn.started"}, thread_id : {""}, usage : {NoUsage}, item : {NoItem}]

\* a line json.Unmarshal returns an error for
BadLines == [type : {"(not json)"}, thread_id : {""}, usage : {NoUsage}, item : {NoItem}]

NoRec == [type |-> "", thread_id |-> "", usage |-> NoUsage, item |-> NoItem]

\* the lines of a turn as the event stream sees them
Lines == {r \in ThreadRecords : r.thread_id = "T1"} \cup ItemRecords \cup OtherRecords
            \cup BadLines

HasSuffix(s, c) == Len(s) > 0 /\ s[Len(s)] = c

\* an emit that has no room for any event
emitNothing(h, typ, text) == [sess EXCEPT ![h].dropped = Event(typ, text)]

\* an emit that puts its event ahead of the events waiting in the channel
emitAhead(h, typ, text) ==
    IF Len(sess[h].events) < EventsCap
    THEN [sess EXCEPT ![h].events = <<Event(typ, text)>> \o @]
    ELSE [sess EXCEPT ![h].dropped = Event(typ, text)]

\* handleExec.emit: a non-blocking send into the handle's buffered channel;
\* with the buffer full the event is dropped
emit(h, typ, text) ==
    IF Len(sess[h].events) < EventsCap
    THEN [sess EXCEPT ![h].events = Append(@, Event(typ, text))]
    ELSE [sess EXCEPT ![h].dropped = Event(typ, text)]

\* a readJSONL that adopts every thread.started id, not only the first
AdoptEveryThread(h, ev) ==
    IF ev.thread_id # ""
    THEN /\ sess' = [sess EXCEPT ![h].threadID = ev.thread_id, ![h].adopted = TRUE]
         /\ IF sess[h].chatKey # ""
            THEN /\ StoreThreads(setThreadMap(sess[h].chatKey, ev.thread_id))
                 /\ seen' = [seen EXCEPT ![sess[h].chatKey] = @ \cup {ev.thread_id}]
            ELSE UNCHANGED <<threads, stateFile, seen>>
    ELSE UNCHANGED <<sess, threads, stateFile, seen>>

\* handleExec.readJSONL, case "thread.started": adopt the first id under
\* hh.mu, then persist it with setThread
AdoptThread(h, ev) ==
    IF ev.thread_id # "" /\ sess[h].threadID = ""
    THEN /\ sess' = [sess EXCEPT ![h].threadID = ev.thread_id, ![h].adopted = TRUE]
         /\ IF sess[h].chatKey # ""
            THEN /\ StoreThreads(setThreadMap(sess[h].chatKey, ev.thread_id))
                 /\ seen' = [seen EXCEPT ![sess[h].chatKey] = @ \cup {ev.thread_id}]
            ELSE UNCHANGED <<threads, stateFile, seen>>
    ELSE UNCHANGED <<sess, threads, stateFile, seen>>

\* handleExec.readJSONL: one line of the running turn's standard output
readJSONL(p, ev) ==
    /\ pc[p] = "run" /\ loc[p].n < MaxLines /\ ~loc[p].done
    /\ loc' = [loc EXCEPT ![p].n = loc[p].n + 1,
                           ![p].last = IF ev.type = "thread.started" THEN ev.thread_id ELSE @,
                           ![p].done = (ev.type = "turn.completed"),
                           ![p].rec = ev,
                           ![p].bad = @ \/ ev \in BadLines]
    /\ CASE ev \in BadLines ->
                /\ sess' = emit(loc[p].s, "stderr", <<"bad json: ", "\n">>)
                /\ UNCHANGED <<threads, stateFile, seen>>
         [] ev.type = "thread.started" -> AdoptThread(loc[p].s, ev)
         [] ev.type = "item.completed" ->
                /\ IF ev.item # NoItem /\ ev.item.Type = "agent_message" /\ ev.item.Text # <<>>
                   THEN LET txt == IF HasSuffix(ev.item.Text, "\n") THEN ev.item.Text
                                   ELSE ev.item.Text \o <<"\n">>
                        IN  sess' = emit(loc[p].s, "stdout", txt)
                   ELSE UNCHANGED sess
                /\ UNCHANGED <<threads, stateFile, seen>>
         [] ev.type = "turn.completed" -> UNCHANGED <<sess, threads, stateFile, seen>>
         [] OTHER -> UNCHANGED <<sess, threads, stateFile, seen>>
    /\ UNCHANGED <<sessions, pc, calls, signalled, stopped, replaced, memVars>>
    /\ UNCHANGED <<pumping, waitErr, term, disk, fn, store>>

\* sendExec from cmd.Wait() on: the subprocess has ended, hh.running is reset
\* if it is still this cmd, the reader is done, Send returns and unlocks
Exit(p, code) ==
    /\ pc[p] = "run" /\ loc[p].hook = ""
    /\ LET h == loc[p].s
       IN  sess' = [sess EXCEPT ![h].cmd = IF sess[h].cmd = p THEN "none" ELSE @,
                                ![loc[p].lk].inMu = "none"]
    /\ signalled' = signalled \ {p}
    /\ AfterSend(p, IF code = 0 THEN "" ELSE "exit status")
    /\ UNCHANGED <<sessions, threads, stateFile, calls, stopped, replaced, seen, memVars>>

\* history: the handle of the turn that ends and the error of its cmd.Wait
Waited(p, code) ==
    /\ waitErr' = [h |-> loc[p].s, err |-> IF code = 0 THEN "" ELSE "exit status"]
    /\ UNCHANGED <<term, disk, fn, store>>

\* handleExec.readStderr: one line of the subprocess's standard error
readStderr(p) ==
    /\ pc[p] = "run" /\ loc[p].e < MaxLines
    /\ sess' = emit(loc[p].s, "stderr", <<"warn", "\n">>)
    /\ loc' = [loc EXCEPT ![p].e = loc[p].e + 1]
    /\ UNCHANGED <<sessions, threads, stateFile, pc, calls, signalled, stopped, replaced,
                   seen, memVars>>
    /\ UNCHANGED <<pumping, waitErr, term, disk, fn, store>>

\* Session.MarkStopped
MarkStopped(h) == [sess EXCEPT ![h].running = FALSE]

\* an agent message may carry its number: the turn it belongs to and the
\* line of the turn's stdout it was read from; 0 for any other event
LineNo(ev) ==
    IF ev.Type = "stdout" /\ Len(ev.Text) = 3
    THEN LET c == CHOOSE c \in 1..(MaxCalls + 1) : ToString(c) = ev.Text[1]
             n == CHOOSE n \in 1..(MaxLines + 1) : ToString(n) = ev.Text[2]
         IN  c * (MaxLines + 2) + n
    ELSE 0

\* pumpEvents, one turn of its loop: the next Event of the Session is taken
\* and forwarded; on an exit Event, or on a closed and drained channel, the
\* Session is marked stopped and the pumper returns (gate.Leave)
pumpEvents(h) ==
    /\ h \in pumping
    /\ IF sess[h].events # <<>>
       THEN LET ev == Head(sess[h].events)
            IN  /\ sess' = IF sess[h].kind = "exec" /\ LineNo(ev) # 0
                            THEN [sess EXCEPT ![h].events = Tail(@), ![h].got = LineNo(ev)]
                            ELSE [sess EXCEPT ![h].events = Tail(@),
                                              ![h].running = IF ev.Type = "exit" THEN FALSE
                                                             ELSE @]
                /\ pumping' = IF ev.Type = "exit" THEN pumping \ {h} ELSE pumping
       ELSE /\ sess[h].closed > 0
            /\ sess' = MarkStopped(h)
            /\ pumping' = pumping \ {h}
    /\ UNCHANGED <<sessions, threads, stateFile, pc, loc, calls, signalled, stopped,
                   replaced, seen, memVars, waitErr, term, disk, fn, store>>

\* ------------------------------------------------- memory and compaction
ZeroMem == [Summary |-> "", Rules |-> <<>>, Prefs |-> <<>>, SkillIdeas |-> <<>>,
            TokensSinceCompact |-> 0, TurnsSinceCompact |-> 0, CompactedAt |-> 0]

memoryTokenThreshold == 200      \* MEMORY_TOKEN_THRESHOLD as configured here

memoryTurnThreshold == 40        \* MEMORY_TURN_THRESHOLD, the default

\* memory.json holds {"chats": {...}}: the set of key/value pairs
saveMemoryLocked(m) == [exists |-> TRUE, body |-> {<<k, m[k]>> : k \in DOMAIN m}]

loadMemory(f) ==
    IF f.exists
    THEN [k \in {kv[1] : kv \in f.body} |-> (CHOOSE kv \in f.body : kv[1] = k)[2]]
    ELSE EmptyMap

\* getMem: the entry of chatKey, made on first use
getMem(m, chatKey) == IF chatKey \in DOMAIN m THEN m[chatKey] ELSE ZeroMem

\* strings.TrimSpace on the strings that occur here
TrimSpace(s) == CASE s = " a" -> "a" [] s = " " -> "" [] OTHER -> s

RECURSIVE Pushed(_, _)
\* mergeUnique's push over a list: trimmed, non-empty, first occurrences only
Pushed(out, list) ==
    IF list = <<>> THEN out
    ELSE LET s == TrimSpace(Head(list))
         IN  IF s = "" \/ (\E i \in 1..Len(out) : out[i] = s)
             THEN Pushed(out, Tail(list))
             ELSE Pushed(Append(out, s), Tail(list))

Capped(out, limit) == IF limit > 0 /\ Len(out) > limit THEN SubSeq(out, 1, limit) ELSE out

\* a mergeUnique that never cuts its result
mergeUniqueUncapped(base, add, limit) == Pushed(Pushed(<<>>, base), add)

mergeUnique(base, add, limit) == Capped(Pushed(Pushed(<<>>, base), add), limit)

RECURSIVE Trimmed(_)
Trimmed(list) ==
    IF list = <<>> THEN <<>>
    ELSE LET s == TrimSpace(Head(list))
         IN  IF s = "" THEN Trimmed(Tail(list)) ELSE <<s>> \o Trimmed(Tail(list))

trimList(in, limit) == Capped(Trimmed(in), limit)

RulesLimit == 20

IdeasLimit == 5

\* what the compaction subprocess may answer: a JSON object, or other text
Replies ==
    { [json |-> TRUE, Summary |-> "s1", Rules |-> <<"a", " a">>, Prefs |-> <<"p">>,
       SkillIdeas |-> <<"i">>, text |-> ""],
      [json |-> FALSE, Summary |-> "", Rules |-> <<>>, Prefs |-> <<>>,
       SkillIdeas |-> <<>>, text |-> "raw"] }

\* compactChat: the compactResult parsed from the reply
parseReply(r) == IF r.json THEN r ELSE [r EXCEPT !.Summary = TrimSpace(r.text)]

\* a compactChat that replaces the stored rules and prefs by the new ones
compactedAnew(m, res) ==
    [m EXCEPT !.Summary = TrimSpace(res.Summary),
              !.Rules = mergeUnique(<<>>, res.Rules, RulesLimit),
              !.Prefs = mergeUnique(<<>>, res.Prefs, RulesLimit),
              !.SkillIdeas = trimList(res.SkillIdeas, IdeasLimit),
              !.CompactedAt = m.CompactedAt + 1,
              !.TokensSinceCompact = 0,
              !.TurnsSinceCompact = 0]

\* compactChat: the chatMemory after a successful compaction
compacted(m, res) ==
    [m EXCEPT !.Summary = TrimSpace(res.Summary),
              !.Rules = mergeUnique(m.Rules, res.Rules, RulesLimit),
              !.Prefs = mergeUnique(m.Prefs, res.Prefs, RulesLimit),
              !.SkillIdeas = trimList(res.SkillIdeas, IdeasLimit),
              !.CompactedAt = m.CompactedAt + 1,
              !.TokensSinceCompact = 0,
              !.TurnsSinceCompact = 0]

\* onTurnCompleted: the chatMemory after the counters are incremented
accounted(m, usage) ==
    [m EXCEPT !.TurnsSinceCompact = m.TurnsSinceCompact + 1,
              !.TokensSinceCompact = m.TokensSinceCompact + usage.InputTokens
                                                          + usage.OutputTokens]

\* a need computed from the token threshold alone
needByTokensOnly(m) == m.TokensSinceCompact >= memoryTokenThreshold

\* a need computed from the turn threshold alone
needByTurnsOnly(m) == m.TurnsSinceCompact >= memoryTurnThreshold

needCompact(m) ==
    \/ m.TokensSinceCompact >= memoryTokenThreshold
    \/ m.TurnsSinceCompact >= memoryTurnThreshold

\* history: the outcome of a chat's first three usage hooks
LogHook(k, what) ==
    hookLog' = IF k \in ChatKeys /\ Len(hookLog[k]) < 3
               THEN [hookLog EXCEPT ![k] = Append(@, what)]
               ELSE hookLog

SetHook(k, what) ==
    hookLog' = IF k \in ChatKeys /\ hookLog[k] # <<>> /\ hookLog[k][Len(hookLog[k])] = "pending"
               THEN [hookLog EXCEPT ![k][Len(hookLog[k])] = what]
               ELSE hookLog

\* Adapter.onTurnCompleted up to "if !need || threadID == "" { return }":
\* the memMu critical section (counters, need, saveMemoryLocked)
onTurnCompleted(p, chatKey, threadID, usage) ==
    IF chatKey = ""
    THEN /\ UNCHANGED <<mem, memFile, hookLog>>
         /\ loc' = [loc EXCEPT ![p].n = loc[p].n + 1, ![p].done = TRUE]
    ELSE LET m == accounted(getMem(mem, chatKey), usage)
         IN  /\ mem' = MapPut(mem, chatKey, m)
             /\ memFile' = saveMemoryLocked(mem')
             /\ IF needCompact(m) /\ threadID # ""
                THEN /\ loc' = [loc EXCEPT ![p].n = loc[p].n + 1, ![p].done = TRUE,
                                           ![p].hook = chatKey, ![p].htid = threadID,
                                           ![p].turnsNow = m.TurnsSinceCompact]
                     /\ LogHook(chatKey, "pending")
                ELSE /\ loc' = [loc EXCEPT ![p].n = loc[p].n + 1, ![p].done = TRUE]
                     /\ LogHook(chatKey, IF needCompact(m) THEN "noThread" ELSE "quiet")

\* handleExec.readJSONL, case "turn.completed": the usage-accounting hook is
\* called with the handle's chatKey and thread id and the record's usage
readTurnCompleted(p, ev) ==
    /\ pc[p] = "run" /\ loc[p].n < MaxLines /\ ~loc[p].done
    /\ ev.type = "turn.completed"
    /\ onTurnCompleted(p, sess[loc[p].s].chatKey, sess[loc[p].s].threadID, ev.usage)
    /\ UNCHANGED <<sessions, sess, threads, stateFile, pc, calls, signalled, stopped,
                   replaced, seen, compacting, tasks, nTasks>>
    /\ UNCHANGED <<pumping, waitErr, term, disk, fn, store>>

\* an onTurnCompleted that does not look at the compacting flag
neverCompacting(k) == FALSE

\* a.compacting[chatKey], false for a missing key
isCompacting(k) == k \in DOMAIN compacting /\ compacting[k]

\* an onTurnCompleted that calls compactChat in place (no go statement):
\* the reader of the turn goes on only when the task has ended
startCompactionInline(p) ==
    /\ pc[p] = "run" /\ loc[p].hook # ""
    /\ LET k == loc[p].hook
       IN  IF loc[p].htid = ""
           THEN /\ ~isCompacting(k)
                /\ loc' = [loc EXCEPT ![p].hook = ""]
                /\ UNCHANGED <<compacting, tasks, nTasks, hookLog>>
           ELSE IF isCompacting(k)
                THEN /\ loc' = [loc EXCEPT ![p].hook = "", ![p].htid = "", ![p].turnsNow = 0]
                     /\ UNCHANGED <<compacting, tasks, nTasks>>
                     /\ SetHook(k, "skipped")
                ELSE /\ compacting' = MapPut(compacting, k, TRUE)
                     /\ tasks' = tasks \cup {[id |-> nTasks + 1, key |-> k,
                                              tid |-> loc[p].htid, st |-> "run",
                                              err |-> FALSE,
                                              turnsNow |-> loc[p].turnsNow]}
                     /\ nTasks' = nTasks + 1
                     /\ loc' = [loc EXCEPT ![p].htid = "", ![p].turnsNow = 0]
                     /\ SetHook(k, "started")
    /\ UNCHANGED <<sessions, sess, threads, stateFile, pc, calls, signalled, stopped,
                   replaced, seen, mem, memFile>>
    /\ UNCHANGED <<pumping, waitErr, term, disk, fn, store>>

\* Adapter.onTurnCompleted, the compactMu critical section: return silently
\* when the chat is compacting, else set the flag and start the goroutine
startCompaction(p) ==
    /\ pc[p] = "run" /\ loc[p].hook # ""
    /\ LET k == loc[p].hook
       IN  IF isCompacting(k)
           THEN /\ UNCHANGED <<compacting, tasks, nTasks>>
                /\ SetHook(k, "skipped")
           ELSE /\ compacting' = MapPut(compacting, k, TRUE)
                /\ tasks' = tasks \cup {[id |-> nTasks + 1, key |-> k, tid |-> loc[p].htid,
                                         st |-> "run", err |-> FALSE,
                                         turnsNow |-> loc[p].turnsNow]}
                /\ nTasks' = nTasks + 1
                /\ SetHook(k, "started")
    /\ loc' = [loc EXCEPT ![p].hook = "", ![p].htid = "", ![p].turnsNow = 0]
    /\ UNCHANGED <<sessions, sess, threads, stateFile, pc, calls, signalled, stopped,
                   replaced, seen, mem, memFile>>
    /\ UNCHANGED <<pumping, waitErr, term, disk, fn, store>>

\* a compactChat that resets the counters before it looks at the error
compactFailedResets(t) ==
    /\ t \in tasks /\ t.st = "run"
    /\ mem' = MapPut(mem, t.key, [getMem(mem, t.key) EXCEPT !.TokensSinceCompact = 0,
                                                              !.TurnsSinceCompact = 0])
    /\ memFile' = saveMemoryLocked(mem')
    /\ tasks' = (tasks \ {t}) \cup {[t EXCEPT !.st = "end", !.err = TRUE]}
    /\ UNCHANGED <<sessVars, compacting, nTasks, hookLog>>
    /\ UNCHANGED <<pumping, waitErr, term, disk, fn, store>>

\* compactChat, runCodexResumeJSON failed: "return err" before anything is
\* written
compactFailed(t) ==
    /\ t \in tasks /\ t.st = "run"
    /\ tasks' = (tasks \ {t}) \cup {[t EXCEPT !.st = "end", !.err = TRUE]}
    /\ UNCHANGED <<sessVars, mem, memFile, compacting, nTasks, hookLog>>
    /\ UNCHANGED <<pumping, waitErr, term, disk, fn, store>>

\* compactChat, runCodexResumeJSON answered: the memMu critical section
compactMerge(t, reply) ==
    /\ t \in tasks /\ t.st = "run"
    /\ mem' = MapPut(mem, t.key, compacted(getMem(mem, t.key), parseReply(reply)))
    /\ memFile' = saveMemoryLocked(mem')
    /\ tasks' = (tasks \ {t}) \cup {[t EXCEPT !.st = "merged"]}
    /\ UNCHANGED <<sessVars, compacting, nTasks, hookLog>>
    /\ UNCHANGED <<pumping, waitErr, term, disk, fn, store>>

\* Adapter.dropThread: the persisted thread id of the chat is cleared
dropThread(chatKey) == StoreThreads(clearThreadMap(chatKey))

\* compactChat: a.dropThread(chatKey); return nil
compactDrop(t) ==
    /\ t \in tasks /\ t.st = "merged"
    /\ dropThread(t.key)
    /\ seen' = [seen EXCEPT ![t.key] = {}]
    /\ tasks' = (tasks \ {t}) \cup {[t EXCEPT !.st = "end"]}
    /\ UNCHANGED <<sessions, sess, pc, loc, calls, signalled, stopped, replaced,
                   mem, memFile, compacting, nTasks, hookLog>>
    /\ UNCHANGED <<pumping, waitErr, term, disk, fn, store>>

\* a goroutine that ends without the deferred release of the flag
compactDoneKeepsFlag(t) ==
    /\ t \in tasks /\ t.st = "end"
    /\ tasks' = tasks \ {t}
    /\ UNCHANGED <<sessVars, mem, memFile, compacting, nTasks, hookLog>>
    /\ UNCHANGED <<pumping, waitErr, term, disk, fn, store>>

\* the goroutine of onTurnCompleted ends: the deferred compacting[chatKey] = false
compactDone(t) ==
    /\ t \in tasks /\ t.st = "end"
    /\ compacting' = MapPut(compacting, t.key, FALSE)
    /\ tasks' = tasks \ {t}
    /\ UNCHANGED <<sessVars, mem, memFile, nTasks, hookLog>>
    /\ UNCHANGED <<pumping, waitErr, term, disk, fn, store>>

\* handleMessage "/cancel": SessionManager.Cancel, the map lookup
Cancel(p, c) ==
    /\ p = "main" /\ pc[p] = "idle" /\ calls < MaxCalls
    /\ calls' = calls + 1
    /\ IF sessions[c] = 0
       THEN UNCHANGED <<pc, loc>>
       ELSE /\ Goto(p, "cancelStop")
            /\ loc' = [loc EXCEPT ![p] = [NoLoc EXCEPT !.chat = c, !.s = sessions[c]]]
    /\ UNCHANGED <<sessions, sess, threads, stateFile, signalled, stopped, replaced, seen, memVars>>
    /\ UNCHANGED <<pumping, waitErr, term, disk, fn, store>>

\* SessionManager.Cancel: m.adapter.Stop(s.h)
CancelStop(p) ==
    /\ pc[p] = "cancelStop"
    /\ Stop(loc[p].s)
    /\ Return(p)
    /\ UNCHANGED <<sessions, threads, stateFile, calls, stopped, replaced, seen, memVars>>
    /\ UNCHANGED <<pumping, waitErr, term, disk, fn, store>>

\* the bot process is restarted: codex.New runs loadState, NewSessionManager
\* starts with an empty map, every goroutine of the old process is gone
Restart ==
    /\ sessions' = [c \in AllChats |-> 0]
    /\ sess' = <<>>
    /\ threads' = loadState(stateFile)
    /\ pc' = [p \in Procs |-> "idle"]
    /\ loc' = [p \in Procs |-> NoLoc]
    /\ signalled' = {}
    /\ stopped' = {}
    /\ replaced' = {}
    /\ mem' = loadMemory(memFile)
    /\ compacting' = EmptyMap
    /\ tasks' = {}
    /\ pumping' = {}
    /\ UNCHANGED <<stateFile, calls, seen, memFile, nTasks, hookLog, waitErr, term, disk, fn, store>>

Next ==
    \/ \E p \in Procs, c \in Chats, in \in Inputs : CallSend(p, c, in)
    \/ \E p \in Procs, c \in Chats : NewFresh(p, c)
    \/ \E p \in Procs, c \in Chats : Cancel(p, c)
    \/ \E p \in Procs : StartClear(p)
    \/ \E p \in Procs : StartHandle(p)
    \/ \E p \in Procs : Install(p)
    \/ \E p \in Procs : StopOld(p)
    \/ \E p \in Procs : Lock(p)
    \/ \E p \in Procs : sendExec(p)
    \/ \E p \in Procs, ev \in Records : readJSONL(p, ev)
    \/ \E p \in Procs, code \in ExitCodes : Exit(p, code) /\ UNCHANGED <<waitErr, term, disk, fn, store>>
    \/ \E p \in Procs : CancelStop(p)
    \/ Restart

Spec == Init /\ [][Next]_vars

\* The same engine with sendExec's start of the subprocess in its two
\* steps: cmd.Start(), and then hh.running = cmd under hh.mu.
cmdStart(p) ==
    /\ pc[p] = "adapterSend" /\ loc[p].input # ""
    /\ loc' = [loc EXCEPT ![p].tid = sess[loc[p].s].threadID]
    /\ Goto(p, "cmdStarted")
    /\ UNCHANGED <<sessions, sess, threads, stateFile, calls, signalled, stopped, replaced,
                   seen, memVars>>
    /\ UNCHANGED <<pumping, waitErr, term, disk, fn, store>>

setRunning(p) ==
    /\ pc[p] = "cmdStarted"
    /\ sess' = [sess EXCEPT ![loc[p].s].cmd = p, ![loc[p].s].first = FALSE]
    /\ Goto(p, "run")
    /\ UNCHANGED <<sessions, threads, stateFile, loc, calls, signalled, stopped, replaced,
                   seen, memVars>>
    /\ UNCHANGED <<pumping, waitErr, term, disk, fn, store>>

NextStop ==
    \/ \E c \in Chats, in \in Inputs : CallSend("main", c, in)
    \/ \E c \in SchedChats : CallSend("sched", c, "m")
    \/ \E c \in Chats : NewFresh("main", c)
    \/ \E c \in Chats : Cancel("main", c)
    \/ \E p \in Procs : StartClear(p)
    \/ \E p \in Procs : StartHandle(p)
    \/ \E p \in Procs : Install(p)
    \/ \E p \in Procs : StopOld(p)
    \/ \E p \in Procs : Lock(p)
    \/ \E p \in Procs : sendExec(p) /\ pc'[p] # "run"
    \/ \E p \in Procs : cmdStart(p)
    \/ \E p \in Procs : setRunning(p)
    \/ \E p \in Procs, ev \in Records : readJSONL(p, ev)
    \/ \E p \in Procs, code \in ExitCodes : Exit(p, code) /\ UNCHANGED <<waitErr, term, disk, fn, store>>
    \/ \E p \in Procs : CancelStop(p)

SpecStop == Init /\ [][NextStop]_vars

\* The same engine with the usage hook wired into readJSONL, driven by the
\* update loop alone (Send and /new), with the compaction goroutines.
NextMem ==
    \/ \E c \in MemChats : CallSend("main", c, "m")
    \/ \E c \in MemChats : NewFresh("main", c)
    \/ StartClear("main")
    \/ StartHandle("main")
    \/ Install("main")
    \/ StopOld("main")
    \/ Lock("main")
    \/ sendExec("main")
    \/ \E ev \in ThreadRecords : readJSONL("main", ev)
    \/ \E ev \in UsageRecords : readTurnCompleted("main", ev)
    \/ startCompaction("main")
    \/ \E code \in ExitCodes : Exit("main", code) /\ UNCHANGED <<waitErr, term, disk, fn, store>>
    \/ \E t \in tasks : compactFailed(t)
    \/ \E t \in tasks, r \in Replies : compactMerge(t, r)
    \/ \E t \in tasks : compactDrop(t)
    \/ \E t \in tasks : compactDone(t)

SpecMem == Init /\ [][NextMem]_vars

\* One successful compaction on its own: compactChat's merge of a reply into
\* the memory of a chat, with lists long enough to reach the caps. The
\* entries are "1", "2", ...; the stored lists are results of earlier merges.
Count(a, n) == [i \in 1..n |-> ToString(a + i - 1)]

StoredLists == {Count(1, n) : n \in {0, 1, RulesLimit - 1, RulesLimit}}

NewLists ==
    {Count(a, n) : a \in {1, RulesLimit - 5, RulesLimit + 1}, n \in {0, 2, 6, RulesLimit + 1}}
       \cup {<<" ", "21", "", "21", " a", "a">>}

NewIdeas ==
    {Count(1, n) : n \in {0, IdeasLimit, IdeasLimit + 1}}
       \cup {<<" ", "a", "a", "", "b", "c", "d", "e", "f">>}

InitCompact ==
    /\ Started0 /\ term = NoTerm /\ disk = NoDisk /\ store = NoStore
    /\ fn \in {[NoFn EXCEPT !.st = "call",
                            !.in = [m   |-> [ZeroMem EXCEPT !.Rules = r, !.Prefs = p,
                                                            !.SkillIdeas = <<"old">>,
                                                            !.CompactedAt = at,
                                                            !.TokensSinceCompact = 450,
                                                            !.TurnsSinceCompact = 3],
                                    res |-> [json |-> TRUE, Summary |-> "s1", Rules |-> nr,
                                             Prefs |-> np, SkillIdeas |-> ni, text |-> ""]]] :
                 r \in StoredLists, p \in StoredLists, at \in {0, 1},
                 nr \in NewLists, np \in NewLists, ni \in NewIdeas}

\* compactChat's memMu section
callCompacted ==
    /\ fn.st = "call"
    /\ fn' = [fn EXCEPT !.st = "done", !.out = compacted(fn.in.m, parseReply(fn.in.res))]
    /\ UNCHANGED <<sessVars, memVars, pumping, waitErr, term, disk, store>>

NextCompact == callCompacted

SpecCompact == InitCompact /\ [][NextCompact]_vars

\* The same, started with the memory.json that earlier runs left: chat 1 has
\* counted turns up to one below the turn threshold, and some tokens.
StartTurns == {0, memoryTurnThreshold - 1}

StartTokens == {0, 50}

InitCounted ==
    /\ \E n \in StartTurns, k \in StartTokens :
          /\ memFile = saveMemoryLocked(MapPut(EmptyMap, "1",
                           [ZeroMem EXCEPT !.TurnsSinceCompact = n,
                                           !.TokensSinceCompact = k]))
          /\ mem = loadMemory(memFile)
    /\ sessions = [c \in AllChats |-> 0]
    /\ sess = <<>>
    /\ threads = EmptyMap
    /\ stateFile = NoFile
    /\ pc = [p \in Procs |-> "idle"]
    /\ loc = [p \in Procs |-> NoLoc]
    /\ calls = 0
    /\ signalled = {} /\ stopped = {} /\ replaced = {}
    /\ seen = [k \in ChatKeys |-> {}]
    /\ compacting = EmptyMap
    /\ tasks = {} /\ nTasks = 0
    /\ hookLog = [k \in ChatKeys |-> <<>>]
    /\ pumping = {}
    /\ waitErr = [h |-> 0, err |-> ""]
    /\ term = NoTerm /\ disk = NoDisk /\ fn = NoFn /\ store = NoStore

SpecCounted == InitCounted /\ [][NextMem]_vars

\* The same, with the messages of a group chat as well.
NextMemGroup ==
    \/ NextMem
    \/ \E c \in GroupChats : CallSend("main", c, "m")

SpecMemGroup == Init /\ [][NextMemGroup]_vars

\* ------------------------------------------ terminal queries (interactive)
ESC == "ESC"      \* the byte 0x1b

dsrCursor == <<ESC, "[", "6", "n">>

dsrCursorQ == <<ESC, "[", "?", "6", "n">>

\* the canned cursor-position reply, ESC [ 1 ; 1 R
Reply == <<ESC, "[", "1", ";", "1", "R">>

\* bytes.Index(b, pat): the position of the first occurrence of pat in b
\* (1-based), 0 where Go returns -1
Index(b, pat) ==
    LET at == {i \in 1..(Len(b) - Len(pat) + 1) : SubSeq(b, i, i + Len(pat) - 1) = pat}
    IN  IF at = {} THEN 0 ELSE CHOOSE i \in at : \A i2 \in at : i <= i2

\* b with the n bytes from position k on cut out: append(b[:k], b[k+n:]...)
Cut(b, k, n) == SubSeq(b, 1, k - 1) \o SubSeq(b, k + n, Len(b))

\* a handleTermQueries that answers the first query only
RECURSIVE firstQueryOnly(_)
firstQueryOnly(r) ==
    LET i == Index(r.out, dsrCursor)
        j == Index(r.out, dsrCursorQ)
        k == IF i = 0 \/ (j # 0 /\ j < i) THEN j ELSE i
        n == IF i = 0 \/ (j # 0 /\ j < i) THEN Len(dsrCursorQ) ELSE Len(dsrCursor)
    IN  IF (i = 0 /\ j = 0) \/ r.removed > 0
        THEN r
        ELSE firstQueryOnly([out |-> Cut(r.out, k, n), removed |-> r.removed + 1,
                             stdin |-> r.stdin \o Reply])

\* handle.handleTermQueries: as long as b holds a query, the earliest one
\* is cut out and the reply is written to the child's stdin; r carries b,
\* the number of queries cut out and the bytes written
RECURSIVE handleTermQueries(_)
handleTermQueries(r) ==
    LET i == Index(r.out, dsrCursor)
        j == Index(r.out, dsrCursorQ)
        k == IF i = 0 \/ (j # 0 /\ j < i) THEN j ELSE i
        n == IF i = 0 \/ (j # 0 /\ j < i) THEN Len(dsrCursorQ) ELSE Len(dsrCursor)
    IN  IF i = 0 /\ j = 0
        THEN r
        ELSE handleTermQueries([out |-> Cut(r.out, k, n), removed |-> r.removed + 1,
                                stdin |-> r.stdin \o Reply])

\* the pieces a chunk read from the pty is made of
Pieces == {<<ESC>>, <<"[">>, <<"?">>, <<"6">>, <<"n">>, <<"a">>, <<ESC, "[">>, <<"6", "n">>}

RECURSIVE Chunks(_)
Chunks(n) ==
    IF n = 0 THEN {<<>>}
    ELSE Chunks(n - 1) \cup {c \o q : c \in Chunks(n - 1), q \in Pieces}

\* readLoopPTY: n bytes were read from the pty into the empty pending buffer
InitTerm ==
    /\ Started0
    /\ term \in {[NoTerm EXCEPT !.st = "read", !.chunk = c] : c \in Chunks(MaxPieces) \ {<<>>}}
    /\ disk = NoDisk /\ fn = NoFn /\ store = NoStore

\* readLoopPTY: pending = h.handleTermQueries(pending)
termQueries ==
    /\ term.st = "read"
    /\ LET r == handleTermQueries([out |-> term.chunk, removed |-> 0, stdin |-> <<>>])
       IN  term' = [term EXCEPT !.st = "stripped", !.out = r.out, !.removed = r.removed,
                                !.stdin = r.stdin]
    /\ UNCHANGED <<sessVars, memVars, pumping, waitErr, disk, fn, store>>

\* readLoopPTY: what is left of the chunk is forwarded as one stdout Event,
\* nothing when it is empty
termForward ==
    /\ term.st = "stripped"
    /\ term' = [term EXCEPT !.st = IF term.out # <<>> THEN "forwarded" ELSE "empty"]
    /\ UNCHANGED <<sessVars, memVars, pumping, waitErr, disk, fn, store>>

NextTerm == termQueries \/ termForward

SpecTerm == InitTerm /\ [][NextTerm]_vars

\* ------------------------------------------------ the interactive handle
\* Adapter.startInteractive (pty mode: the child is started on a pty, the
\* read and wait goroutines are started, the status event is sent), and
\* newWithID up to setRunning(true)
startInteractive(p) ==
    /\ pc[p] \in {"start", "start2"}
    /\ LET sid == IF loc[p].fresh THEN FreshSessionID(loc[p].chat)
                                  ELSE ResumeSessionID(loc[p].chat)
       IN  sess' = Append(sess, NewHandle(loc[p].chat, sid))
    /\ loc' = [loc EXCEPT ![p].new = Len(sess) + 1]
    /\ Goto(p, "install")
    /\ UNCHANGED <<sessions, threads, stateFile, calls, signalled, stopped, replaced, seen, memVars>>
    /\ UNCHANGED <<pumping, waitErr, term, disk, fn, store>>

\* Adapter.Send, case *handle: the input, with a newline, is written to
\* the pty; the write fails once the pty has been closed
sendInteractive(p) ==
    /\ pc[p] = "adapterSend"
    /\ LET h == loc[p].s
       IN  /\ sess' = [sess EXCEPT ![h].stdin = IF sess[h].ptyClosed THEN @ ELSE @ + 1,
                                    ![loc[p].lk].inMu = "none"]
           /\ AfterSend(p, IF sess[h].ptyClosed THEN "file already closed" ELSE "")
    /\ UNCHANGED <<sessions, threads, stateFile, calls, signalled, stopped, replaced, seen, memVars>>
    /\ UNCHANGED <<waitErr, term, disk, fn, store>>

\* the ways a child ends, as cmd.Wait reports them
Ends == {"exit 0", "exit 1", "signal"}

\* the child process ends (by itself, or on a signal)
childExit(h, end) ==
    /\ sess[h].kind = "pty" /\ sess[h].child = "alive"
    /\ sess' = [sess EXCEPT ![h].child = "exited", ![h].end = end]
    /\ UNCHANGED <<sessions, threads, stateFile, pc, loc, calls, signalled, stopped,
                   replaced, seen, memVars, pumping, waitErr, term, disk, fn, store>>

\* a waitLoop that reports every exit as code 0
waitCodeZero(end) == 0

\* waitLoop: the exit code decoded from the error of cmd.Wait (ExitStatus()
\* is -1 for a child ended by a signal; 1 for an error that is no ExitError)
waitCode(end) ==
    CASE end = "exit 0" -> 0
      [] end = "exit 1" -> 1
      [] end = "signal" -> -1
      [] OTHER -> 1

\* handle.closeEvents: close(h.events) inside h.once.Do
closeEvents(h) ==
    [sess EXCEPT ![h].once = TRUE,
                 ![h].closed = IF sess[h].once THEN @ ELSE @ + 1]

\* waitLoop: h.cmd.Wait() returns for the child that has ended
waitReturns(h) ==
    /\ sess[h].kind = "pty" /\ sess[h].wl = "wait" /\ sess[h].child = "exited"
    /\ sess' = [sess EXCEPT ![h].child = "reaped", ![h].wl = "emit"]
    /\ UNCHANGED <<sessions, threads, stateFile, pc, loc, calls, signalled, stopped,
                   replaced, seen, memVars, pumping, waitErr, term, disk, fn, store>>

\* waitLoop: the exit Event is sent (a blocking send)
waitEmits(h) ==
    /\ sess[h].kind = "pty" /\ sess[h].wl = "emit"
    /\ Len(sess[h].events) < EventsCap
    /\ sess' = [sess EXCEPT ![h].events = Append(@, [Type |-> "exit",
                                                     Text |-> <<"process exited">>,
                                                     Code |-> waitCode(sess[h].end)]),
                             ![h].exits = @ + 1,
                             ![h].wl = "close"]
    /\ UNCHANGED <<sessions, threads, stateFile, pc, loc, calls, signalled, stopped,
                   replaced, seen, memVars, pumping, waitErr, term, disk, fn, store>>

\* waitLoop: h.pty.Close(), h.closeEvents()
waitCloses(h) ==
    /\ sess[h].kind = "pty" /\ sess[h].wl = "close"
    /\ sess' = [closeEvents(h) EXCEPT ![h].ptyClosed = TRUE, ![h].wl = "done"]
    /\ UNCHANGED <<sessions, threads, stateFile, pc, loc, calls, signalled, stopped,
                   replaced, seen, memVars, pumping, waitErr, term, disk, fn, store>>

\* The interactive handle: messages and /cancel of one chat from the
\* callers in P, the child, the handle's wait goroutine and the pumpEvents
\* goroutines the callers start (the read goroutine is in SpecTerm)
StepsPTY(P) ==
    \/ \E p \in P : CallSend(p, 1, "m")
    \/ Cancel("main", 1)
    \/ \E p \in P : startInteractive(p)
    \/ \E p \in P : Install(p)
    \/ \E p \in P : StopOld(p)
    \/ \E p \in P : Lock(p)
    \/ \E p \in P : sendInteractive(p)
    \/ CancelStop("main")
    \/ \E h \in SIdx, end \in Ends : childExit(h, end)
    \/ \E h \in SIdx : waitReturns(h)
    \/ \E h \in SIdx : waitEmits(h)
    \/ \E h \in SIdx : waitCloses(h)
    \/ \E h \in SIdx : pumpEvents(h)

\* driven by the update loop alone
NextPTY == StepsPTY({"main"})

SpecPTY == Init /\ [][NextPTY]_vars

\* driven by the update loop and the scheduler goroutine
NextPTYSched == StepsPTY(Procs)

SpecPTYSched == Init /\ [][NextPTYSched]_vars

\* what a pass of a read goroutine's loop ends with: a chunk of output to
\* send, a read error to report, or the end of the file
Reads == {"output", "read error", "EOF"}

\* handle.readLoopPTY (readLoopPipe alike), from the Read to the Event in
\* hand; fn is the read goroutine of the handle fn.in[1]. Output is read
\* as long as the pty is open; a Read fails once the child has gone or
\* the pty has been closed.
readLoop(h, r) ==
    /\ sess[h].kind = "pty"
    /\ fn = NoFn \/ (fn.st = "read" /\ fn.in = <<h>>)
    /\ r = "output" => ~sess[h].ptyClosed
    /\ r # "output" => (sess[h].child # "alive" \/ sess[h].ptyClosed)
    /\ fn' = CASE r = "output" ->
                    [st |-> "send", in |-> <<h>>, out |-> <<Event("stdout", <<"a">>)>>]
              [] r = "read error" ->
                    [st |-> "send", in |-> <<h>>,
                     out |-> <<Event("stderr", <<"read error: ", "\n">>)>>]
              [] OTHER -> [st |-> "returned", in |-> <<h>>, out |-> <<>>]
    /\ UNCHANGED <<sessVars, memVars, pumping, waitErr, term, disk, store>>

\* the read goroutine's h.events <- Event: a blocking send, which panics on
\* a closed channel; after a read error the goroutine returns
readLoopSends ==
    /\ fn.st = "send"
    /\ LET h  == fn.in[1]
           ev == fn.out[1]
       IN  IF sess[h].closed > 0
           THEN /\ fn' = [fn EXCEPT !.st = "panic"]
                /\ UNCHANGED sess
           ELSE /\ Len(sess[h].events) < EventsCap
                /\ sess' = [sess EXCEPT ![h].events = Append(@, ev)]
                /\ fn' = [st |-> IF ev.Type = "stderr" THEN "returned" ELSE "read",
                          in |-> fn.in, out |-> <<>>]
    /\ UNCHANGED <<sessions, threads, stateFile, pc, loc, calls, signalled, stopped, replaced,
                   seen, memVars>>
    /\ UNCHANGED <<pumping, waitErr, term, disk, store>>

\* the interactive handle with the read goroutine of one of its handles
NextReaders ==
    \/ NextPTY
    \/ \E h \in SIdx, r \in Reads : readLoop(h, r)
    \/ readLoopSends

SpecReaders == Init /\ [][NextReaders]_vars

\* ----------------------------------------- the two stores and their files
MaxOps == 3            \* calls made on a store (threads and memory, or schedules)

\* the chat keys parseChatKey returns (empty for an id it cannot split)
StoreKeys == ChatKeys \cup {""}

\* one token of a JSON text: a brace, an object key, or a value
Tok(t, v) == [t |-> t, v |-> v]

RECURSIVE Members(_, _)
\* encoding/json writes the entries of a Go map in the order of their keys
Members(m, c) ==
    IF c \notin Chats THEN <<>>
    ELSE (IF ToString(c) \in DOMAIN m
          THEN <<Tok("key", ToString(c)), Tok("val", m[ToString(c)])>> ELSE <<>>)
            \o Members(m, c + 1)

\* a Marshal that writes the first entry of the map only
MarshalFirstOnly(m) ==
    <<Tok("{", "")>> \o SubSeq(Members(m, 1), 1, IF DOMAIN m = {} THEN 0 ELSE 2)
                    \o <<Tok("}", "")>>

\* json.MarshalIndent(stateFile{Threads: m}) / (memoryFile{Chats: m})
Marshal(m) == <<Tok("{", "")>> \o Members(m, 1) \o <<Tok("}", "")>>

\* json.Unmarshal: an error for a text that is no complete object, else the
\* map of its entries (of two entries with one key the later one counts)
Unmarshal(b) ==
    LET n  == Len(b)
        ok == /\ n >= 2 /\ n % 2 = 0
              /\ b[1].t = "{" /\ b[n].t = "}"
              /\ \A i \in 2..(n - 1) : b[i].t = IF i % 2 = 0 THEN "key" ELSE "val"
        ks == {b[i].v : i \in {j \in 2..(n - 1) : j % 2 = 0}}
    IN  [ok |-> ok,
         v  |-> IF ok
                THEN [k \in ks |->
                        b[(CHOOSE i \in 2..(n - 1) :
                             /\ i % 2 = 0 /\ b[i].v = k
                             /\ \A j \in (i + 1)..(n - 1) : j % 2 = 0 => b[j].v # k) + 1].v]
                ELSE EmptyMap]

\* loadState / loadMemory on the bytes of the file: a missing file and a
\* text json.Unmarshal rejects leave the map of the new Adapter empty
loadBytes(f) == IF f.exists /\ Unmarshal(f.bytes).ok THEN Unmarshal(f.bytes).v ELSE EmptyMap

File(b) == [exists |-> TRUE, bytes |-> b]

\* saveStateLocked / saveMemoryLocked, up to json.MarshalIndent: b is kept,
\* tmp is named
beginSave(which, m) ==
    [disk EXCEPT !.save = which, !.at = "open", !.buf = Marshal(m),
                 !.prev = IF which = "state" THEN disk.state ELSE disk.memory]

\* what a store call leaves unchanged besides its map, disk and calls
StoreFrame == UNCHANGED <<sessions, sess, stateFile, pc, loc, signalled, stopped, replaced,
                          seen, memFile, compacting, tasks, nTasks, hookLog, pumping,
                          waitErr, term, fn, store>>

\* Adapter.setThread(chatKey, threadID) up to the os.WriteFile of its save
setThread(chatKey, threadID) ==
    /\ disk.at = "idle" /\ calls < MaxOps /\ ~disk.failed
    /\ calls' = calls + 1
    /\ threads' = setThreadMap(chatKey, threadID)
    /\ disk' = IF threads' # threads THEN beginSave("state", threads') ELSE disk
    /\ UNCHANGED mem
    /\ StoreFrame

\* Adapter.clearThread(chatKey) up to the os.WriteFile of its save
clearThread(chatKey) ==
    /\ disk.at = "idle" /\ calls < MaxOps /\ ~disk.failed
    /\ calls' = calls + 1
    /\ threads' = clearThreadMap(chatKey)
    /\ disk' = IF threads' # threads THEN beginSave("state", threads') ELSE disk
    /\ UNCHANGED mem
    /\ StoreFrame

\* Adapter.memoryPrefix: getMem puts an empty chatMemory into the map for a
\* chat that has none; nothing is saved
memoryPrefix(chatKey) ==
    /\ disk.at = "idle" /\ calls < MaxOps /\ ~disk.failed
    /\ calls' = calls + 1
    /\ mem' = IF chatKey = "" THEN mem ELSE MapPut(mem, chatKey, getMem(mem, chatKey))
    /\ UNCHANGED disk
    /\ UNCHANGED threads
    /\ StoreFrame

\* Adapter.onTurnCompleted, the memMu critical section up to the
\* os.WriteFile of its save
accountTurn(chatKey, usage) ==
    /\ disk.at = "idle" /\ calls < MaxOps /\ ~disk.failed
    /\ chatKey # ""
    /\ calls' = calls + 1
    /\ mem' = MapPut(mem, chatKey, accounted(getMem(mem, chatKey), usage))
    /\ disk' = beginSave("memory", mem')
    /\ UNCHANGED threads
    /\ StoreFrame

\* Adapter.compactChat, the memMu critical section up to the os.WriteFile
\* of its save
mergeResult(chatKey, reply) ==
    /\ disk.at = "idle" /\ calls < MaxOps /\ ~disk.failed
    /\ chatKey # ""
    /\ calls' = calls + 1
    /\ mem' = MapPut(mem, chatKey, compacted(getMem(mem, chatKey), parseReply(reply)))
    /\ disk' = beginSave("memory", mem')
    /\ UNCHANGED threads
    /\ StoreFrame

\* the .tmp file of the save under way
Tmp(d) == IF d.save = "state" THEN d.stateTmp ELSE d.memoryTmp

SetTmp(d, f) == IF d.save = "state" THEN [d EXCEPT !.stateTmp = f] ELSE [d EXCEPT !.memoryTmp = f]

\* a save that opens the file itself where the source opens the .tmp file
saveOpenInPlace ==
    /\ disk.at = "open"
    /\ disk' = [(IF disk.save = "state" THEN [disk EXCEPT !.state = File(<<>>)]
                                        ELSE [disk EXCEPT !.memory = File(<<>>)])
                  EXCEPT !.at = "write"]
    /\ UNCHANGED <<sessVars, memVars, pumping, waitErr, term, fn, store>>

\* os.WriteFile(tmp, b, 0o644): the file is created, or truncated
saveOpen ==
    /\ disk.at = "open"
    /\ disk' = [SetTmp(disk, File(<<>>)) EXCEPT !.at = "write"]
    /\ UNCHANGED <<sessVars, memVars, pumping, waitErr, term, fn, store>>

\* os.WriteFile: the bytes go into the file
saveWrite ==
    /\ disk.at = "write"
    /\ LET n == Len(Tmp(disk).bytes) + 1
       IN  disk' = [SetTmp(disk, File(SubSeq(disk.buf, 1, n)))
                     EXCEPT !.at = IF n = Len(disk.buf) THEN "rename" ELSE "write"]
    /\ UNCHANGED <<sessVars, memVars, pumping, waitErr, term, fn, store>>

\* os.WriteFile returns an error (the open or a write failed); the save
\* ignores it and goes on to the rename (a run is followed up to its first
\* write error, the rename and the restarts after it: no store call is
\* made once disk.failed is set)
saveWriteFails ==
    /\ disk.at \in {"open", "write"}
    /\ disk' = [disk EXCEPT !.at = "rename", !.failed = TRUE]
    /\ UNCHANGED <<sessVars, memVars, pumping, waitErr, term, fn, store>>

\* os.Rename(tmp, path): the file is replaced in one step (an error, for a
\* .tmp file that does not exist, is ignored); the store call returns
saveRename ==
    /\ disk.at = "rename"
    /\ disk' = IF ~Tmp(disk).exists THEN [disk EXCEPT !.at = "idle"]
               ELSE IF disk.save = "state"
               THEN [disk EXCEPT !.state = disk.stateTmp, !.stateTmp = NoBytes, !.at = "idle"]
               ELSE [disk EXCEPT !.memory = disk.memoryTmp, !.memoryTmp = NoBytes,
                                 !.at = "idle"]
    /\ UNCHANGED <<sessVars, memVars, pumping, waitErr, term, fn, store>>

\* the bot process dies, at any point, and is started again: codex.New
\* builds an Adapter and runs loadState (and loadMemory) on the files as
\* they are
Crash ==
    /\ threads' = loadBytes(disk.state)
    /\ mem' = loadBytes(disk.memory)
    /\ disk' = [disk EXCEPT !.at = "idle"]
    /\ UNCHANGED calls
    /\ StoreFrame

NextStore ==
    \/ \E k \in StoreKeys, tid \in ThreadIDs \cup {""} : setThread(k, tid)
    \/ \E k \in StoreKeys : clearThread(k)
    \/ \E k \in StoreKeys : memoryPrefix(k)
    \/ \E k \in ChatKeys, u \in Usages : accountTurn(k, u)
    \/ \E k \in ChatKeys, r \in Replies : mergeResult(k, r)
    \/ saveOpen
    \/ saveWrite
    \/ saveWriteFails
    \/ saveRename
    \/ Crash

SpecStore == Init /\ [][NextStore]_vars

\* ------------------------------------------------------ single functions
MaxLen == 2            \* entries of each list passed to mergeUnique

\* the lists of at most n elements of S
SeqsUpTo(S, n) == UNION {[1..k -> S] : k \in 0..n}

\* rule strings: plain, with a leading space, blank, empty
RuleStrings == {"a", "b", "c", " a", " ", ""}

\* the caps passed: none, small ones, and the 20 compactChat passes
Caps == {0, 1, 2, RulesLimit}

\* a call mergeUnique(base, add, limit) is about to be made
InitMerge ==
    /\ Started0 /\ term = NoTerm /\ disk = NoDisk /\ store = NoStore
    /\ fn \in {[NoFn EXCEPT !.st = "call", !.in = [base |-> b, add |-> a, cap |-> c]] :
                 b \in SeqsUpTo(RuleStrings, MaxLen) \cup {<<"a", "b">>},
                 a \in SeqsUpTo(RuleStrings, MaxLen) \cup {<<"b", "c">>},
                 c \in Caps}

\* the call returns
callMergeUnique ==
    /\ fn.st = "call"
    /\ fn' = [fn EXCEPT !.st = "done",
                        !.out = mergeUnique(fn.in.base, fn.in.add, fn.in.cap)]
    /\ UNCHANGED <<sessVars, memVars, pumping, waitErr, term, disk, store>>

NextMerge == callMergeUnique

SpecMerge == InitMerge /\ [][NextMerge]_vars

\* ---------------------------------------------------- the schedule store
\* strconv.Atoi on the strings that occur here
Atoi(s) ==
    CASE s = "00" -> [ok |-> TRUE, n |-> 0]
      [] s = "9"  -> [ok |-> TRUE, n |-> 9]
      [] s = "09" -> [ok |-> TRUE, n |-> 9]
      [] s = "30" -> [ok |-> TRUE, n |-> 30]
      [] s = "24" -> [ok |-> TRUE, n |-> 24]
      [] OTHER    -> [ok |-> FALSE, n |-> 0]

\* parseHHMM, on the parts strings.Split(hhmm, ":") returns
parseHHMM(parts) ==
    IF Len(parts) # 2 THEN [err |-> "time must be HH:MM", h |-> 0, m |-> 0]
    ELSE LET h == Atoi(parts[1])
             m == Atoi(parts[2])
         IN  IF ~h.ok \/ h.n < 0 \/ h.n > 23 THEN [err |-> "bad hour", h |-> 0, m |-> 0]
             ELSE IF ~m.ok \/ m.n < 0 \/ m.n > 59 THEN [err |-> "bad minute", h |-> 0, m |-> 0]
             ELSE [err |-> "", h |-> h.n, m |-> m.n]

\* fmt.Sprintf("%02d", n) for 0 <= n < 100, as its characters or digit groups
Pad2(n) == IF n < 10 THEN <<"0", ToString(n)>> ELSE <<ToString(n)>>

\* fmt.Sprintf("%02d:%02d", h, m)
FormatHHMM(h, m) == Pad2(h) \o <<":">> \o Pad2(m)

\* the times a user may give, split at ":"
Times == {<<"9", "00">>, <<"09", "00">>, <<"9", "30">>, <<"24", "00">>, <<"9">>}

Prompts == {"a", " a", " "}

TaskIDs == {"1", "2", " "}

\* an UpsertDaily that never finds the task
FindNone(ts, chatID, hhmm) == 0

\* UpsertDaily's loop: the index of the first task of the chat at that time,
\* 0 when there is none
FindTask(ts, chatID, hhmm) ==
    LET hits == {i \in 1..Len(ts) : ts[i].ChatID = chatID /\ ts[i].DailyHHMM = hhmm}
    IN  IF hits = {} THEN 0 ELSE CHOOSE i \in hits : \A j \in hits : i <= j

\* what a call on the schedule store leaves unchanged
ScheduleFrame == UNCHANGED <<sessions, sess, threads, stateFile, pc, loc, signalled, stopped,
                             replaced, seen, memVars, pumping, waitErr, term, disk, fn>>

Called(op, chatID, time, arg, err) ==
    [op |-> op, chat |-> chatID, time |-> time, arg |-> arg, err |-> err]

\* ScheduleStore.UpsertDaily(chatID, hhmm, prompt), with its saveLocked
UpsertDaily(chatID, time, prompt) ==
    /\ calls < MaxOps
    /\ calls' = calls + 1
    /\ LET r  == parseHHMM(time)
           pr == TrimSpace(prompt)
           hm == FormatHHMM(r.h, r.m)
           i  == FindTask(store.Tasks, chatID, hm)
           ts == IF i # 0
                 THEN [store.Tasks EXCEPT ![i].Prompt = pr, ![i].Enabled = TRUE]
                 ELSE Append(store.Tasks,
                             [ID |-> ToString(store.created + 1), ChatID |-> chatID,
                              DailyHHMM |-> hm, Prompt |-> pr, Enabled |-> TRUE,
                              LastRunYMD |-> ""])
       IN  IF r.err # ""
           THEN store' = [store EXCEPT !.last = Called("UpsertDaily", chatID, time, prompt, r.err)]
           ELSE IF pr = ""
           THEN store' = [store EXCEPT !.last = Called("UpsertDaily", chatID, time, prompt,
                                                        "empty prompt")]
           ELSE store' = [Tasks |-> ts, file |-> ts,
                          created |-> IF i # 0 THEN store.created ELSE store.created + 1,
                          last |-> Called("UpsertDaily", chatID, time, prompt, "")]
    /\ ScheduleFrame

\* ScheduleStore.Remove(chatID, id)
Remove(chatID, id) ==
    /\ calls < MaxOps
    /\ calls' = calls + 1
    /\ LET tid  == TrimSpace(id)
           keep(t) == ~(t.ChatID = chatID /\ t.ID = tid)
           ts   == SelectSeq(store.Tasks, keep)
       IN  IF tid = ""
           THEN store' = [store EXCEPT !.last = Called("Remove", chatID, <<>>, id, "empty id")]
           ELSE store' = [store EXCEPT !.Tasks = ts,
                                       !.file = IF ts # store.Tasks THEN ts ELSE @,
                                       !.last = Called("Remove", chatID, <<>>, id, "")]
    /\ ScheduleFrame

\* ScheduleStore.SetEnabled(chatID, id, enabled)
SetEnabled(chatID, id, enabled) ==
    /\ calls < MaxOps
    /\ calls' = calls + 1
    /\ LET tid  == TrimSpace(id)
           hits == {i \in 1..Len(store.Tasks) :
                      store.Tasks[i].ChatID = chatID /\ store.Tasks[i].ID = tid}
           i    == CHOOSE k \in hits : \A j \in hits : k <= j
           ts   == [store.Tasks EXCEPT ![i].Enabled = enabled]
           op   == IF enabled THEN "SetEnabled(true)" ELSE "SetEnabled(false)"
       IN  IF tid = ""
           THEN store' = [store EXCEPT !.last = Called(op, chatID, <<>>, id, "empty id")]
           ELSE IF hits = {}
           THEN store' = [store EXCEPT !.last = Called(op, chatID, <<>>, id, "")]
           ELSE store' = [store EXCEPT !.Tasks = ts, !.file = ts,
                                       !.last = Called(op, chatID, <<>>, id, "")]
    /\ ScheduleFrame

NextSchedule ==
    \/ \E c \in Chats, tm \in Times, pr \in Prompts : UpsertDaily(c, tm, pr)
    \/ \E c \in Chats, id \in TaskIDs : Remove(c, id)
    \/ \E c \in Chats, id \in TaskIDs, on \in BOOLEAN : SetEnabled(c, id, on)

SpecSchedule == Init /\ [][NextSchedule]_vars

\* ------------------------------------------------------- the scheduler
MaxDays == 2           \* local calendar days the clock runs through

\* cfg.Allowlist
Allowlist == {1}

\* now.Format("2006-01-02") on the days of the clock
YMD == <<"2026-11-03", "2026-11-04", "2026-11-05", "2026-11-06">>

\* the minutes at which a tick may find the local clock
ClockMinutes == {<<9, 0>>, <<9, 30>>}

MaxEdits == 2          \* calls the users make on the schedule store

\* time.Now() at a tick
Now(day, hm) == [day |-> day, h |-> hm[1], m |-> hm[2]]

\* RunScheduler between two ticks: fn.in holds the locals of its loop (now,
\* the snapshot of the tasks and the position in it), fn.out the goroutines
\* it has started, in order
Waiting(now, out) == [st |-> "wait", in |-> [now |-> now, tasks |-> <<>>, i |-> 0], out |-> out]

\* schedules.json as an earlier run of the bot may have left it: nothing, a
\* task of a chat that has left the allow-list, or a task switched off
LoadedTasks ==
    {<<>>,
     <<[ID |-> "1", ChatID |-> 2, DailyHHMM |-> FormatHHMM(9, 0), Prompt |-> "a",
        Enabled |-> TRUE, LastRunYMD |-> ""]>>,
     <<[ID |-> "1", ChatID |-> 1, DailyHHMM |-> FormatHHMM(9, 0), Prompt |-> "a",
        Enabled |-> FALSE, LastRunYMD |-> ""]>>}

InitTick ==
    /\ Started0 /\ term = NoTerm /\ disk = NoDisk
    /\ fn = Waiting(Now(1, <<9, 0>>), <<>>)
    /\ \E ts \in LoadedTasks :
          store = [NoStore EXCEPT !.Tasks = ts, !.file = ts, !.created = Len(ts)]

\* history: the last-run days the store holds for the tasks of an id
MapTasks(ts, id) == {ts[i].LastRunYMD : i \in {j \in 1..Len(ts) : ts[j].ID = id}}

\* a markRan that records nothing
markRanNothing(ts, id, ymd) == ts

\* ScheduleStore.markRan(id, ymd) on the tasks ts: the first task of that id
markRan(ts, id, ymd) ==
    LET hits == {i \in 1..Len(ts) : ts[i].ID = id}
    IN  IF hits = {} THEN ts
        ELSE [ts EXCEPT ![CHOOSE i \in hits : \A j \in hits : i <= j].LastRunYMD = ymd]

\* what a step of the scheduler leaves unchanged
TickFrame == UNCHANGED <<sessVars, memVars, pumping, waitErr, term, disk>>

\* RunScheduler, case <-ticker.C: reads the clock and copies the tasks
tick(now) ==
    /\ fn.st = "wait"
    /\ now.day >= fn.in.now.day
    /\ fn' = [st |-> "loop", in |-> [now |-> now, tasks |-> store.Tasks, i |-> 1],
              out |-> fn.out]
    /\ UNCHANGED store
    /\ TickFrame

\* RunScheduler, one round of the loop over the snapshot: the task is passed
\* over, or marked and handed to a goroutine of its own
tickTask ==
    /\ fn.st = "loop"
    /\ fn.in.i <= Len(fn.in.tasks)
    /\ LET task  == fn.in.tasks[fn.in.i]
           hhmm  == FormatHHMM(fn.in.now.h, fn.in.now.m)
           today == YMD[fn.in.now.day]
           ts    == markRan(store.Tasks, task.ID, today)
       IN  IF \/ ~task.Enabled
              \/ task.ChatID \notin Allowlist
              \/ task.DailyHHMM # hhmm
              \/ task.LastRunYMD = today
           THEN /\ fn' = [fn EXCEPT !.in.i = @ + 1]
                /\ UNCHANGED store
           ELSE /\ store' = [store EXCEPT !.Tasks = ts,
                                          !.file = IF ts # store.Tasks THEN ts ELSE @]
                /\ fn' = [fn EXCEPT !.in.i = @ + 1,
                                    !.out = Append(@, [task |-> task, now |-> fn.in.now,
                                                       marked |-> MapTasks(ts, task.ID),
                                                       sent |-> FALSE])]
    /\ TickFrame

\* RunScheduler, the loop is through: back to the select
tickDone ==
    /\ fn.st = "loop"
    /\ fn.in.i > Len(fn.in.tasks)
    /\ fn' = Waiting(fn.in.now, fn.out)
    /\ UNCHANGED store
    /\ TickFrame

\* the goroutine of a task: sessions.Send(ctx, task.ChatID, task.Prompt)
taskSend(k) ==
    /\ k \in 1..Len(fn.out)
    /\ ~fn.out[k].sent
    /\ fn' = [fn EXCEPT !.out[k].sent = TRUE]
    /\ UNCHANGED store
    /\ TickFrame

NextTick ==
    \/ \E day \in 1..MaxDays, hm \in ClockMinutes : tick(Now(day, hm))
    \/ tickTask
    \/ tickDone
    \/ \E k \in 1..(MaxEdits + 1) * MaxDays : taskSend(k)
    \/ calls < MaxEdits /\ \E c \in Allowlist, tm \in Times : UpsertDaily(c, tm, "a")
    \/ calls < MaxEdits /\ \E c \in Allowlist, id \in TaskIDs : Remove(c, id)
    \/ calls < MaxEdits /\ \E c \in Allowlist, id \in TaskIDs, on \in BOOLEAN :
                               SetEnabled(c, id, on)

SpecTick == InitTick /\ [][NextTick]_vars

\* ------------------------------------------- schedules in natural language
\* A text is the sequence of its characters; the Chinese ones are written
\* in pinyin: mei tian (every day), shang wu (morning), xia wu (afternoon),
\* zao shang (morning), wan shang (evening), dian (o'clock), ban (half),
\* fen (minute).
IsDigit(c) == c \in {ToString(d) : d \in 0..9}

DigitVal(c) == CHOOSE d \in 0..9 : ToString(d) = c

\* the decimal digits of n < 100
Decimal(n) == IF n < 10 THEN <<ToString(n)>> ELSE <<ToString(n \div 10), ToString(n % 10)>>

\* strconv.Atoi on one or two digits
AtoiDigits(ds) == IF Len(ds) = 1 THEN DigitVal(ds[1]) ELSE 10 * DigitVal(ds[1]) + DigitVal(ds[2])

HasPrefix(s, p) == Len(s) >= Len(p) /\ SubSeq(s, 1, Len(p)) = p

Drop(s, n) == SubSeq(s, n + 1, Len(s))

\* the number of leading characters of s that are in the set cs, at most cap
RECURSIVE Leading(_, _, _)
Leading(s, cs, cap) ==
    IF cap = 0 \/ s = <<>> \/ Head(s) \notin cs THEN 0 ELSE 1 + Leading(Tail(s), cs, cap - 1)

Spaces(s) == Leading(s, {" "}, Len(s))

Digits(s) == Leading(s, {ToString(d) : d \in 0..9}, 2)

\* strings.TrimSpace on a text
RECURSIVE TrimText(_)
TrimText(s) ==
    IF s = <<>> THEN s
    ELSE IF Head(s) = " " THEN TrimText(Tail(s))
    ELSE IF s[Len(s)] = " " THEN TrimText(SubSeq(s, 1, Len(s) - 1))
    ELSE s

\* the alternatives of dailyRE's period group, in the order of the pattern
PeriodAlts ==
    << <<"shang", "wu", "xia", "wu">>, <<"zao", "shang", "wan", "shang">>, <<"zao", "wan">>,
       <<"shang", "wu">>, <<"xia", "wu">>, <<"zao", "shang">>, <<"wan", "shang">> >>

\* dailyRE's group (?:(ban)|\s*(\d{1,2})\s*fen?)? on the text r after dian:
\* every way to match it, ranked as the matcher tries them (ban; then the
\* minute with two digits before one, more spaces before fewer, fen taken
\* before fen left; then nothing)
MinuteWays(r) ==
    LET t  == Drop(r, Spaces(r))
        nd == Digits(t)
    IN  (IF HasPrefix(r, <<"ban">>)
         THEN {[rank |-> 0, half |-> TRUE, minS |-> <<>>, rest |-> Drop(r, 1)]} ELSE {})
        \cup
        UNION {LET u  == Drop(t, d)
                   sp == Spaces(u)
               IN  UNION {LET v == Drop(u, k)
                          IN  (IF k = sp /\ HasPrefix(v, <<"fen">>)
                               THEN {[rank |-> 1 + (nd - d) * 1000 + (sp - k) * 2, half |-> FALSE,
                                      minS |-> SubSeq(t, 1, d), rest |-> Drop(v, 1)]}
                               ELSE {})
                              \cup
                              {[rank |-> 2 + (nd - d) * 1000 + (sp - k) * 2, half |-> FALSE,
                                minS |-> SubSeq(t, 1, d), rest |-> v]}
                          : k \in 0..sp}
               : d \in 1..nd}
        \cup
        {[rank |-> 1000000, half |-> FALSE, minS |-> <<>>, rest |-> r]}

NoMatch == [ok |-> FALSE, period |-> <<>>, hourS |-> <<>>, half |-> FALSE, minS |-> <<>>,
            prompt |-> <<>>]

\* dailyRE.FindStringSubmatch(text): the groups of the first match the
\* matcher finds; what follows the minute group must hold a character for
\* the prompt group (.+?)
FindStringSubmatch(text) ==
    LET s1 == Drop(text, Spaces(text))
        s2 == Drop(s1, 2)
        alts == {i \in 1..Len(PeriodAlts) : HasPrefix(s2, PeriodAlts[i])}
        alt  == IF alts = {} THEN 0 ELSE CHOOSE i \in alts : \A j \in alts : i <= j
        per  == IF alt = 0 THEN <<>> ELSE PeriodAlts[alt]
        s3 == IF alt = 0 THEN s2
              ELSE Drop(Drop(s2, Len(per)), Spaces(Drop(s2, Len(per))))
        nd == Digits(s3)
        s4 == Drop(Drop(s3, nd), Spaces(Drop(s3, nd)))
        r  == Drop(s4, 1)
        ways == {w \in MinuteWays(r) : w.rest # <<>>}
        w  == CHOOSE x \in ways : \A y \in ways : x.rank <= y.rank
    IN  IF ~HasPrefix(s1, <<"mei", "tian">>) \/ nd = 0 \/ ~HasPrefix(s4, <<"dian">>) \/ ways = {}
        THEN NoMatch
        ELSE [ok |-> TRUE, period |-> per, hourS |-> SubSeq(s3, 1, nd), half |-> w.half,
              minS |-> w.minS, prompt |-> w.rest]

\* parseDailySchedules: applyPeriod
applyPeriod(p, hour) ==
    IF p \in {<<"xia", "wu">>, <<"wan", "shang">>} /\ hour < 12 THEN hour + 12 ELSE hour

\* parseDailySchedules: the periods a period stands for
PeriodsOf(period) ==
    CASE period = <<"shang", "wu", "xia", "wu">> -> << <<"shang", "wu">>, <<"xia", "wu">> >>
      [] period \in {<<"zao", "shang", "wan", "shang">>, <<"zao", "wan">>}
                                                 -> << <<"zao", "shang">>, <<"wan", "shang">> >>
      [] OTHER -> <<period>>

NoSchedules == [ok |-> FALSE, out |-> <<>>]

\* parseDailySchedules: the loop over the periods; a time that is already
\* in out (seen[hhmm]) is skipped
RECURSIVE Schedules(_, _, _, _, _)
Schedules(ps, hour, minute, prompt, out) ==
    IF ps = <<>> THEN out
    ELSE LET hhmm == FormatHHMM(applyPeriod(Head(ps), hour), minute)
         IN  Schedules(Tail(ps), hour, minute, prompt,
                       IF \E i \in 1..Len(out) : out[i].HHMM = hhmm THEN out
                       ELSE Append(out, [HHMM |-> hhmm, Prompt |-> prompt]))

\* parseDailySchedules(text)
parseDailySchedules(text) ==
    LET m      == FindStringSubmatch(text)
        prompt == TrimText(m.prompt)
        hour   == AtoiDigits(m.hourS)
        minute == IF m.half THEN 30 ELSE IF m.minS # <<>> THEN AtoiDigits(m.minS) ELSE 0
    IN  IF ~m.ok \/ prompt = <<>> THEN NoSchedules
        ELSE IF hour > 23 \/ minute > 59 THEN NoSchedules
        ELSE [ok |-> TRUE, out |-> Schedules(PeriodsOf(m.period), hour, minute, prompt, <<>>)]

\* the parts of a text mei tian [period] H dian [ban | M fen] prompt
DailyPeriods == {<<>>} \cup {PeriodAlts[i] : i \in 1..Len(PeriodAlts)}

DailyMinutes == {[kind |-> "none", m |-> 0], [kind |-> "ban", m |-> 30]}
                   \cup {[kind |-> "fen", m |-> m] : m \in 0..59}

\* prompts: plain, with spaces around it, after a comma, and one that
\* begins with a digit ("3 items of news")
DailyPrompts == {<<"x">>, <<" ", "x", " ">>, <<",", "x">>, <<"3", "x">>}

DailyText(in) ==
    <<"mei", "tian">> \o in.period \o Decimal(in.h) \o <<"dian">>
       \o (CASE in.min.kind = "ban" -> <<"ban">>
              [] in.min.kind = "fen" -> Decimal(in.min.m) \o <<"fen">>
              [] OTHER -> <<>>)
       \o in.prompt

\* a message of that form has arrived
InitDaily ==
    /\ Started0 /\ term = NoTerm /\ disk = NoDisk /\ store = NoStore
    /\ fn \in {[NoFn EXCEPT !.st = "call",
                            !.in = [period |-> p, h |-> h, min |-> m, prompt |-> pr]] :
                 p \in DailyPeriods, h \in 0..23, m \in DailyMinutes, pr \in DailyPrompts}

\* handleMessage: parseDailySchedules(text)
callParseDailySchedules ==
    /\ fn.st = "call"
    /\ fn' = [fn EXCEPT !.st = "done", !.out = parseDailySchedules(DailyText(fn.in))]
    /\ UNCHANGED <<sessVars, memVars, pumping, waitErr, term, disk, store>>

NextDaily == callParseDailySchedules

SpecDaily == InitDaily /\ [][NextDaily]_vars

MaxID == 30            \* chat ids run from -MaxID to MaxID

\* telegram chat ids: users are positive, groups and channels negative
ChatIDs == (0 - MaxID)..MaxID

\* a /new (fresh) or a message (resume) of some chat is about to start a Session
InitSid ==
    /\ Started0 /\ term = NoTerm /\ disk = NoDisk /\ store = NoStore
    /\ fn \in {[NoFn EXCEPT !.st = "call", !.in = [chatID |-> c, fresh |-> f]] :
                 c \in ChatIDs, f \in BOOLEAN}

\* NewFresh / NewResume build the SessionID, and Adapter.startExec calls
\* parseChatKey on it
callParseChatKey ==
    /\ fn.st = "call"
    /\ LET sid == IF fn.in.fresh THEN FreshSessionID(fn.in.chatID)
                                  ELSE ResumeSessionID(fn.in.chatID)
       IN  fn' = [fn EXCEPT !.st = "done", !.out = parseChatKey(sid)]
    /\ UNCHANGED <<sessVars, memVars, pumping, waitErr, term, disk, store>>

NextSid == callParseChatKey

SpecSid == InitSid /\ [][NextSid]_vars

\* startInteractive's error when pty.Start and then cmdPipe.Start failed
StartError == "pty.Start: ...; Start: ..."

\* a newWithID that stops the installed handle although Start failed
startFailsStopsInstalled(p) ==
    /\ pc[p] \in {"start", "start2"}
    /\ LET c == loc[p].chat
       IN  IF sessions[c] # 0
           THEN /\ sess' = [sess EXCEPT ![sessions[c]].running = FALSE, ![sessions[c]].inMu = "none"]
                /\ stopped' = stopped \cup {sessions[c]}
           ELSE UNCHANGED <<sess, stopped>>
    /\ pc' = [pc EXCEPT ![p] = "idle"]
    /\ loc' = [loc EXCEPT ![p] = [NoLoc EXCEPT !.err = StartError]]
    /\ UNCHANGED <<sessions, threads, stateFile, calls, signalled, replaced, seen,
                   memVars, pumping, waitErr, term, disk, fn, store>>

\* Adapter.startInteractive fails (pty.Start and the pipe fallback's Start
\* both return an error): newWithID returns (nil, err) before it builds a
\* Session, NewFresh/NewResume/GetOrCreate pass that on, Send returns
\* (nil, err) with its deferred s.inMu.Unlock() when it had locked a stopped
\* Session, and handleMessage reports the error and starts no pumpEvents
startFails(p) ==
    /\ pc[p] \in {"start", "start2"}
    /\ sess' = IF loc[p].lk # 0 THEN [sess EXCEPT ![loc[p].lk].inMu = "none"] ELSE sess
    /\ pc' = [pc EXCEPT ![p] = "idle"]
    /\ loc' = [loc EXCEPT ![p] = [NoLoc EXCEPT !.err = StartError]]
    /\ UNCHANGED <<sessions, threads, stateFile, calls, signalled, stopped, replaced, seen,
                   memVars, pumping, waitErr, term, disk, fn, store>>

\* The interactive handle under the update loop, with starts that fail and
\* with a /new as the last command of the run
NextStart ==
    \/ NextPTY
    \/ NewFresh("main", 1) /\ calls = MaxCalls - 1
    \/ startFails("main")

SpecStart == Init /\ [][NextStart]_vars

\* The structured (exec) handle with its event stream: the update loop's
\* Sends on one chat, the stdout and stderr readers of the turn, and the
\* pumpEvents goroutines handleMessage starts
NextEvents ==
    \/ CallSend("main", 1, "m")
    \/ StartHandle("main")
    \/ Install("main")
    \/ StopOld("main")
    \/ Lock("main")
    \/ sendExec("main")
    \/ \E ev \in Lines : readJSONL("main", ev)
    \/ readStderr("main")
    \/ \E code \in ExitCodes : Exit("main", code) /\ Waited("main", code)
    \/ \E h \in SIdx : pumpEvents(h)

SpecEvents == Init /\ [][NextEvents]_vars

\* The same with numbered agent messages: the message read from line n of
\* the stdout of the c-th call says so.
NumberedLine(c, n) ==
    [type |-> "item.completed", thread_id |-> "", usage |-> NoUsage,
     item |-> [Type |-> "agent_message", Text |-> <<ToString(c), ToString(n), "\n">>]]

NextOrder ==
    \/ CallSend("main", 1, "m")
    \/ StartHandle("main")
    \/ Install("main")
    \/ StopOld("main")
    \/ Lock("main")
    \/ sendExec("main")
    \/ readJSONL("main", NumberedLine(calls, loc["main"].n + 1))
    \/ readStderr("main")
    \/ \E code \in ExitCodes : Exit("main", code) /\ Waited("main", code)
    \/ \E h \in SIdx : pumpEvents(h)

SpecOrder == Init /\ [][NextOrder]_vars

\* sendExec after cmd.Wait(): it waits for readJSONL (<-done) but not for
\* the goroutine of readStderr, which may have scanned a line that it has
\* not emitted yet; fn is that call of readStderr, on the handle fn.in[1]
WaitedEarly(p, code) ==
    /\ fn = NoFn
    /\ waitErr' = [h |-> loc[p].s, err |-> IF code = 0 THEN "" ELSE "exit status"]
    /\ fn' = [st |-> "stderr", in |-> <<loc[p].s>>, out |-> <<>>]
    /\ UNCHANGED <<term, disk, store>>

\* handleExec.readStderr, the line in hand: appendTranscript and emit
readStderrLate ==
    /\ fn.st = "stderr"
    /\ sess' = emit(fn.in[1], "stderr", <<"warn", "\n">>)
    /\ fn' = NoFn
    /\ UNCHANGED <<sessions, threads, stateFile, pc, loc, calls, signalled, stopped, replaced,
                   seen, memVars>>
    /\ UNCHANGED <<pumping, waitErr, term, disk, store>>

NextLate ==
    \/ NextEvents
    \/ \E code \in ExitCodes : Exit("main", code) /\ WaitedEarly("main", code)
    \/ readStderrLate

SpecLate == Init /\ [][NextLate]_vars

\* every step of NextEvents but the arrival of a new message
EventPath ==
    \/ StartHandle("main")
    \/ Install("main")
    \/ StopOld("main")
    \/ Lock("main")
    \/ sendExec("main")
    \/ \E code \in ExitCodes : Exit("main", code) /\ Waited("main", code)
    \/ \E h \in SIdx : pumpEvents(h)

\* SpecEvents where the goroutines that can run do run and a subprocess
\* that was started ends; nothing is assumed about new messages arriving
SpecEventsFair == SpecEvents /\ WF_vars(EventPath)

\* the steps of a call the update loop has entered: its own goroutine, the
\* reader of the turn and the end of the turn's subprocess
TurnPath ==
    \/ StartClear("main")
    \/ StartHandle("main")
    \/ Install("main")
    \/ StopOld("main")
    \/ Lock("main")
    \/ sendExec("main")
    \/ startCompaction("main")
    \/ \E code \in ExitCodes : Exit("main", code) /\ UNCHANGED <<waitErr, term, disk, fn, store>>

\* SpecMem where a call that can proceed does proceed and its subprocess
\* ends; nothing is assumed about the progress of the compaction goroutines
SpecMemFair == SpecMem /\ WF_vars(TurnPath)

\* the steps of the compaction goroutines: the codex run of compactChat
\* ends, with an error or with a reply, and the goroutine goes on to its end
CompactPath ==
    \/ \E t \in tasks : compactFailed(t)
    \/ \E t \in tasks, r \in Replies : compactMerge(t, r)
    \/ \E t \in tasks : compactDrop(t)
    \/ \E t \in tasks : compactDone(t)

\* SpecMem where a compaction goroutine that can run does run and the codex
\* run it waits for ends; nothing is assumed about the calls of the chats
SpecMemTasksFair == SpecMem /\ WF_vars(CompactPath)

\* ====================================================================
\* Properties of the session manager and of continuation identifiers,
\* checked under Spec
\* ====================================================================

\* the step in which Send hands its input to adapter.Send and the turn's
\* subprocess is started on handle loc[p].s
TurnStarts(p) == pc[p] = "adapterSend" /\ pc'[p] = "run"

\* the step in which process p reads one line of its running turn
LineRead(p) == pc[p] = "run" /\ pc'[p] = "run" /\ loc'[p].n = loc[p].n + 1

Idle == \A p \in Procs : pc[p] = "idle"

\* C1: for every chat the map holds at most one installed Session, which
\* belongs to that chat and has not been replaced; and every Session that
\* newWithID replaced has had Stop called on its handle, or the newWithID
\* that replaced it is at its Stop(old) statement
C1_OneInstalledOthersStopped ==
    /\ \A c \in Chats :
          /\ Cardinality({s \in SIdx : sessions[c] = s}) <= 1
          /\ sessions[c] # 0 =>
                /\ sessions[c] \in SIdx
                /\ sess[sessions[c]].chat = c
                /\ sessions[c] \notin replaced
    /\ \A s \in replaced :
          \/ s \in stopped
          \/ \E p \in Procs : pc[p] = "stopOld" /\ loc[p].old = s

\* C1 witness: two Sessions were replaced, both stopped, no call in progress
C1_Witness ==
    /\ Idle
    /\ Cardinality(replaced) >= 2
    /\ replaced \subseteq stopped

\* C2: no two turns (subprocesses started by adapter.Send) of the same chat
\* are in progress at the same time
C2_OneTurnPerChat ==
    \A p, q \in Procs :
        (p # q /\ pc[p] = "run" /\ pc[q] = "run") => loc[p].chat # loc[q].chat

\* C3: whenever Send hands a message to adapter.Send(h, input), h is the
\* handle of the Session installed for the chat at that moment
C3_SentToInstalled ==
    [][\A p \in Procs : TurnStarts(p) => sessions[loc[p].chat] = loc[p].s]_vars

\* C4: when the first turn of the installed Session made by NewFresh starts,
\* every other call in progress being a turn still running on a superseded
\* handle, no continuation id is persisted for the chat and the turn is
\* invoked without 'resume'
C4_FreshStartsClean ==
    [][\A p \in Procs :
          (/\ TurnStarts(p)
           /\ sess[loc[p].s].first /\ parseChatKey(sess[loc[p].s].sid).fresh
           /\ sessions[loc[p].chat] = loc[p].s
           /\ \A q \in Procs \ {p} :
                 pc[q] # "idle" => pc[q] = "run" /\ loc[q].s \in replaced)
             => /\ getThread(sess[loc[p].s].chatKey) = ""
                /\ loc'[p].tid = ""]_vars

\* C5: a handle made by a resuming Start begins with the continuation id that
\* a turn of the chat adopted from thread.started since the last fresh
\* session, and with no id when none is persisted
C5_ResumeContinues ==
    [][\A p \in Procs :
          (pc[p] = "start2" /\ pc'[p] = "install" /\ ~loc[p].fresh)
             => LET k == ToString(loc[p].chat)
                    h == sess'[loc'[p].new]
                IN  /\ \A T \in seen[k] : h.threadID = T
                    /\ getThread(k) = "" => h.threadID = ""]_vars

\* C6: a handle adopts only the first thread.started id it reads: a handle
\* that holds an id keeps it, and a line it reads leaves the persisted id
\* alone; a handle without an id takes the id of the record and persists it
C6_FirstThreadOnly ==
    [][/\ \A s \in DOMAIN sess :
             (s \in DOMAIN sess' /\ sess[s].threadID # "")
                => sess'[s].threadID = sess[s].threadID
       /\ \A p \in Procs :
             LineRead(p) =>
                LET h == loc[p].s
                IN  IF sess[h].threadID # ""
                    THEN UNCHANGED <<threads, stateFile>>
                    ELSE sess'[h].threadID # "" =>
                            /\ sess'[h].threadID = loc'[p].last
                            /\ sess[h].chatKey # "" =>
                                  MapGet(threads', sess[h].chatKey) = loc'[p].last]_vars

\* C6 witness: the only turn so far printed thread.started T1 and then
\* thread.started T2; the handle and the state file hold T1
C6_Witness ==
    \E p \in Procs :
        /\ calls = 1 /\ pc[p] = "run" /\ loc[p].n = 2 /\ loc[p].last = "T2"
        /\ sess[loc[p].s].adopted /\ sess[loc[p].s].threadID = "T1"
        /\ MapGet(threads, sess[loc[p].s].chatKey) = "T1"
        /\ stateFile = saveStateLocked(threads)


\* ====================================================================
\* Properties of usage accounting and compaction, checked under SpecMem
\* ====================================================================

Failed(t) == [t EXCEPT !.st = "end", !.err = TRUE]

\* the compaction tasks of chat k that have been started and not yet ended
TasksOf(k) == {t \in tasks : t.key = k}

Started(l) == Cardinality({i \in 1..Len(l) : l[i] = "started"})

HadThread(l) == \A i \in 1..Len(l) : l[i] # "noThread"

C12_AgentMessageNeverDropped ==
    \A h \in SIdx : sess[h].dropped.Type \in {"", "stderr", "status"}

\* the line read in this step is an agent message with a text
AgentMessage(r) ==
    r.type = "item.completed" /\ r.item.Type = "agent_message" /\ r.item.Text # <<>>

\* the message text with a newline appended when it does not end with one
WithNewline(s) == IF s[Len(s)] = "\n" THEN s ELSE Append(s, "\n")

\* C13: every item.completed line whose item is an agent_message with a
\* non-empty text adds exactly one stdout Event to the handle's stream, its
\* text the message with a trailing newline appended if missing; a line
\* with another item type, an empty text or another record type adds none
C13_OneEventPerAgentMessage ==
    [][\A p \in Procs : LineRead(p) /\ loc'[p].rec \notin BadLines =>
          LET h == loc[p].s
              r == loc'[p].rec
          IN  sess'[h].events =
                 IF AgentMessage(r)
                 THEN Append(sess[h].events, Event("stdout", WithNewline(r.item.Text)))
                 ELSE sess[h].events]_vars

\* the Event readJSONL emits for a line json.Unmarshal rejects
BadJSON == Event("stderr", <<"bad json: ", "\n">>)

\* the outcome of emit(e) on handle h in this step: e is appended to the
\* stream, or the buffer was full and e is dropped
Emitted(h, e) ==
    IF Len(sess[h].events) < EventsCap
    THEN sess'[h].events = Append(sess[h].events, e)
    ELSE sess'[h].events = sess[h].events /\ sess'[h].dropped = e

\* the reader of p's turn goes on after this step
ReaderGoesOn(p) == pc'[p] = "run" /\ ~loc'[p].done

\* C14 as stated: a stdout line that fails to parse as JSON adds a
\* diagnostic (stderr) Event to the stream and the reader goes on
C14_BadLineYieldsDiagnostic ==
    [][\A p \in Procs : LineRead(p) /\ loc'[p].rec \in BadLines =>
          /\ sess'[loc[p].s].events = Append(sess[loc[p].s].events, BadJSON)
          /\ ReaderGoesOn(p)]_vars

\* C14, amended: a stdout line that fails to parse as JSON emits a
\* diagnostic (stderr) Event, which is added to the stream unless the buffer
\* is full (then it is dropped), and the reader goes on; every well-formed
\* line that follows is processed as usual: an agent message is emitted as a
\* stdout Event, the first thread id is adopted
C14_BadLineDiagnosticOrDropped ==
    [][\A p \in Procs : LineRead(p) =>
          LET h == loc[p].s
              r == loc'[p].rec
          IN  /\ r \in BadLines => Emitted(h, BadJSON) /\ ReaderGoesOn(p)
              /\ loc[p].bad /\ AgentMessage(r) =>
                    Emitted(h, Event("stdout", WithNewline(r.item.Text)))
              /\ loc[p].bad /\ r.type = "thread.started" /\ sess[h].threadID = "" =>
                    sess'[h].threadID = r.thread_id]_vars

\* a bad line was read, its diagnostic is in the stream, and the agent
\* message on the line after it is in the stream too
C14_Witness ==
    \E h \in SIdx :
       /\ pc["main"] = "run" /\ loc["main"].s = h /\ loc["main"].bad
       /\ AgentMessage(loc["main"].rec)
       /\ \E i \in 1..Len(sess[h].events) :
             /\ sess[h].events[i] = BadJSON
             /\ i < Len(sess[h].events)
             /\ sess[h].events[i + 1].Type = "stdout"

\* the step in which p's turn ends: cmd.Wait has returned and Send returns
TurnEnds(p) == pc[p] = "run" /\ pc'[p] = "idle"

\* C15: when the subprocess of a turn exits with a non-zero status, Send
\* returns that exit error and the handle's Event stream still gets a
\* terminal exit Event
C15_FailedTurnEmitsExit ==
    [][\A p \in Procs : TurnEnds(p) /\ waitErr'.err # "" =>
          LET h == loc[p].s
          IN  /\ waitErr' = [h |-> h, err |-> "exit status"]
              /\ sess'[h].events # <<>>
              /\ sess'[h].events[Len(sess'[h].events)].Type = "exit"]_vars

\* C16: the Event sequence of a structured handle is finite: once a
\* pumpEvents goroutine drains the handle and the subprocess of a turn on
\* it has exited, the sequence is eventually closed and that pumpEvents
\* returns
C16_ExecStreamCloses ==
    \A h \in 1..MaxCalls :
       (h \in pumping /\ waitErr.h = h)
          ~> (h \notin pumping /\ h \in SIdx /\ sess[h].closed > 0)

\* ====================================================================
\* Properties of handleTermQueries, checked under SpecTerm
\* ====================================================================

HasQuery(b) == Index(b, dsrCursor) # 0 \/ Index(b, dsrCursorQ) # 0

Queries == {dsrCursor, dsrCursorQ}

\* the ways to read the chunk as text, one query, text
Splits(b) ==
    {s \in [pre : {SubSeq(b, 1, i) : i \in 0..Len(b)}, q : Queries,
            post : {SubSeq(b, i, Len(b)) : i \in 1..(Len(b) + 1)}] :
        s.pre \o s.q \o s.post = b}

RECURSIVE Repeat(_, _)
Repeat(s, n) == IF n = 0 THEN <<>> ELSE s \o Repeat(s, n - 1)

\* what the chunk left behind holds no query, and one reply was written to
\* the child's input for each query removed
StrippedAndAnswered ==
    /\ ~HasQuery(term.out)
    /\ term.stdin = Repeat(Reply, term.removed)
    /\ Len(term.out) + term.removed * 4 <= Len(term.chunk)

\* C19 as stated: the text forwarded of a chunk holds no cursor-position
\* query and the replies written equal the queries removed; and a chunk
\* that is text, one query, text (neither text holding a query) is
\* forwarded as the two texts joined, with exactly one reply
C19_QueriesStrippedOneReply ==
    term.st \in {"stripped", "forwarded", "empty"} =>
       /\ StrippedAndAnswered
       /\ \A s \in Splits(term.chunk) :
             ~HasQuery(s.pre) /\ ~HasQuery(s.post) =>
                term.out = s.pre \o s.post /\ term.stdin = Reply

\* C19, amended: as above, for a chunk that is text, one query, text where
\* the two texts joined hold no query either
C19_QueriesStrippedOneReplyUnlessJoined ==
    term.st \in {"stripped", "forwarded", "empty"} =>
       /\ StrippedAndAnswered
       /\ \A s \in Splits(term.chunk) :
             ~HasQuery(s.pre \o s.post) =>
                term.out = s.pre \o s.post /\ term.stdin = Reply

\* a chunk with one query between two non-empty texts was stripped
C19_Witness ==
    /\ term.st = "forwarded"
    /\ \E s \in Splits(term.chunk) :
          s.pre # <<>> /\ s.post # <<>> /\ ~HasQuery(s.pre \o s.post)
    /\ term.removed = 1

\* ====================================================================
\* Properties of the interactive handle and of the replacement of a
\* stopped Session, checked under SpecPTY
\* ====================================================================

\* the step in which Send's adapter.Send returns for p
Delivers(p) == pc[p] = "adapterSend" /\ pc'[p] = "idle"

\* the step in which p's Send, holding s.inMu, tests s.IsRunning()
Tests(p) == pc[p] = "lock" /\ pc'[p] # "lock"

\* C20: when Send finds the chat's Session marked stopped it creates and
\* installs a resuming replacement, and hands the message to the handle of
\* the replacement, never to the handle of the stopped Session; after
\* that the replacement is the installed Session and is running
C20_StoppedSessionReplaced ==
    [][\A p \in Procs :
          /\ Tests(p) /\ ~sess[loc[p].s].running =>
                pc'[p] = "start2" /\ ~loc'[p].fresh /\ loc'[p].ret = "adapterSend"
          /\ Delivers(p) /\ loc[p].lk # loc[p].s =>
                LET old == loc[p].lk
                    new == loc[p].s
                IN  /\ ~sess[new].ptyClosed => sess'[new].stdin = sess[new].stdin + 1
                    /\ sess'[old].stdin = sess[old].stdin
                    /\ sessions'[loc[p].chat] = new
                    /\ sess'[new].running]_vars

\* the interactive handles allocated so far
Handles == {h \in SIdx : sess[h].kind = "pty"}

\* C17: for an interactive handle, once the child has exited the wait task
\* sends exactly one exit Event, carrying the exit code decoded from what
\* cmd.Wait reported, and then closes the Event sequence exactly once: the
\* close comes after the exit Event and no second close ever happens
C17_OneExitThenOneClose ==
    [][\A h \in Handles :
          /\ sess'[h].exits <= 1 /\ sess'[h].closed <= 1
          /\ sess'[h].exits # sess[h].exits =>
                /\ sess[h].child = "reaped" /\ sess[h].closed = 0
                /\ sess'[h].events =
                      Append(sess[h].events,
                             [Type |-> "exit", Text |-> <<"process exited">>,
                              Code |-> CASE sess[h].end = "exit 0" -> 0
                                         [] sess[h].end = "exit 1" -> 1
                                         [] sess[h].end = "signal" -> -1])
          /\ sess'[h].closed # sess[h].closed => sess[h].exits = 1
          /\ sess'[h].wl = "done" => sess'[h].exits = 1 /\ sess'[h].closed = 1]_vars

\* a child ended by a signal has been waited for, its exit Event (code -1)
\* was sent and read by pumpEvents, and the sequence is closed
C17_Witness ==
    \E h \in Handles :
       /\ sess[h].end = "signal" /\ sess[h].wl = "done"
       /\ sess[h].exits = 1 /\ sess[h].closed = 1
       /\ ~sess[h].running /\ sess[h].events = <<>>

\* C18: Stop on a handle with no running process returns without error
\* (here: on an interactive handle whose process has already exited)
C18_StopWithoutProcessIsNoError ==
    \A h \in Handles : sess[h].child # "alive" => sess[h].stopErr = ""

\* ---------------------------------------------------------------- C21
\* the step of caller p in which its Start call ends without a new handle
StartFailed(p) == pc[p] \in {"start", "start2"} /\ pc'[p] # pc[p] /\ Len(sess') = Len(sess)

\* C21: when the adapter's Start fails, the caller (NewFresh, or Send through
\* GetOrCreate or through the replacement of a stopped Session) gets the
\* error, no Session is created, the session map is unchanged, and no handle
\* is stopped or signalled: a Session installed before stays installed,
\* with its handle as it was.
C21_FailedStartChangesNothing ==
    [][\A p \in Procs :
         StartFailed(p) =>
            /\ pc'[p] = "idle" /\ loc'[p].err = StartError
            /\ sessions' = sessions
            /\ stopped' = stopped /\ signalled' = signalled /\ replaced' = replaced
            /\ pumping' = pumping
            /\ \A h \in SIdx :
                  /\ sess'[h].running = sess[h].running
                  /\ sess'[h].child = sess[h].child
                  /\ sess'[h].stopErr = sess[h].stopErr
                  /\ sess'[h].events = sess[h].events]_vars

\* the Start of a /new failed for a chat with a running Session installed,
\* which is still installed and running
C21_Witness ==
    /\ loc["main"].err = StartError
    /\ sessions[1] # 0
    /\ sess[sessions[1]].running
    /\ sessions[1] \notin stopped

\* ---------------------------------------------------------------- C22
\* a file that is missing, or a complete JSON text
Whole(f) == ~f.exists \/ Unmarshal(f.bytes).ok

\* C22: whatever point of a save the process dies at (and as long as no
\* os.WriteFile failed), state.json and memory.json are complete texts, and
\* the file of the save last begun is either what it was when that save
\* began or the complete new text.
C22_CrashLeavesPreviousOrNew ==
    ~disk.failed =>
       /\ Whole(disk.state) /\ Whole(disk.memory)
       /\ disk.save = "state" => disk.state \in {disk.prev, File(disk.buf)}
       /\ disk.save = "memory" => disk.memory \in {disk.prev, File(disk.buf)}

\* the process died while the .tmp file of a state save was half written and
\* came up again with the previous snapshot
C22_Witness ==
    /\ ~disk.failed /\ disk.at = "idle" /\ disk.save = "state"
    /\ disk.stateTmp.exists /\ disk.stateTmp.bytes # <<>> /\ ~Whole(disk.stateTmp)
    /\ disk.state.exists /\ disk.state = disk.prev /\ disk.state # File(disk.buf)
    /\ threads = loadBytes(disk.state) /\ threads # EmptyMap

\* ---------------------------------------------------------------- C23
\* the step in which the save of the named file ends with its rename
Renamed(which) ==
    /\ disk.save = which /\ disk.at = "rename" /\ Tmp(disk).exists /\ ~disk.failed
    /\ disk'.at = "idle" /\ ~Tmp(disk').exists

C24_NoEmptyThreadID == \A k \in DOMAIN threads : threads[k] # ""

\* the thread map has an entry for each chat and the file holds them
C24_Witness ==
    /\ DOMAIN threads = ChatKeys
    /\ disk.at = "idle" /\ loadBytes(disk.state) = threads

\* ---------------------------------------------------------------- C25
RECURSIVE FirstOnes(_, _)
\* the list s without the entries that occurred before in it or in had
FirstOnes(s, had) ==
    IF s = <<>> THEN <<>>
    ELSE IF Head(s) \in had THEN FirstOnes(Tail(s), had)
    ELSE <<Head(s)>> \o FirstOnes(Tail(s), had \cup {Head(s)})

\* the first n entries of s (all of s when it has fewer)
Take(s, n) == SubSeq(s, 1, IF Len(s) < n THEN Len(s) ELSE n)

\* the example of the claim
MergeExample ==
    fn.in.base = <<"a", "b">> /\ fn.in.add = <<"b", "c">> /\ fn.in.cap = RulesLimit
        => fn.out = <<"a", "b", "c">>

\* C25 as stated: mergeUnique returns the elements of base, then those of
\* add, in their order, without the exact-string duplicates after the first
\* occurrence, cut to at most cap entries; ["a","b"] with ["b","c"] and cap
\* 20 gives ["a","b","c"].
C25_MergeKeepsFirstOccurrences ==
    fn.st = "done" =>
       /\ fn.out = Take(FirstOnes(fn.in.base \o fn.in.add, {}), fn.in.cap)
       /\ MergeExample

\* C25 as the code has it: the elements are trimmed of surrounding white
\* space first, those that are empty then are left out, duplicates are
\* found among the trimmed strings, and the result is cut to cap entries
\* only for a cap above zero; the example holds.
C25_MergeTrimsThenKeepsFirstOccurrences ==
    fn.st = "done" =>
       LET all     == fn.in.base \o fn.in.add
           trimmed == [i \in 1..Len(all) |-> TrimSpace(all[i])]
           full    == FirstOnes(trimmed, {""})
       IN  /\ fn.out = IF fn.in.cap > 0 THEN Take(full, fn.in.cap) ELSE full
           /\ MergeExample

\* the example of the claim has been computed
C25_Witness ==
    /\ fn.st = "done"
    /\ fn.in = [base |-> <<"a", "b">>, add |-> <<"b", "c">>, cap |-> RulesLimit]
    /\ fn.out = <<"a", "b", "c">>

\* ---------------------------------------------------------------- C26
\* C26: for every chat id, negative ones included, parseChatKey of the
\* SessionID that NewFresh or NewResume generated returns the decimal
\* string of the chat id, and fresh exactly for the ids of NewFresh.
C26_SessionIDGivesChatAndFresh ==
    fn.st = "done" =>
       /\ fn.out.chatKey = ToString(fn.in.chatID)
       /\ fn.out.fresh = fn.in.fresh

\* ---------------------------------------------------------------- C27
\* no two tasks of the list have the same chat and the same time
OnePerChatAndTime(ts) ==
    \A i, j \in 1..Len(ts) :
        i # j => ~(ts[i].ChatID = ts[j].ChatID /\ ts[i].DailyHHMM = ts[j].DailyHHMM)

\* C27: after every UpsertDaily, Remove and SetEnabled the store holds at
\* most one task per chat and normalised time, and an UpsertDaily for a chat
\* and time that have a task adds none: that task keeps its id, has the new
\* (trimmed) prompt and is enabled, and the other tasks are as they were.
C27_OneTaskPerChatAndTime ==
    [][/\ OnePerChatAndTime(store'.Tasks)
       /\ \A i \in 1..Len(store.Tasks) :
            LET l == store'.last
                r == parseHHMM(l.time)
            IN  (/\ calls' = calls + 1 /\ l.op = "UpsertDaily" /\ l.err = ""
                 /\ store.Tasks[i].ChatID = l.chat
                 /\ store.Tasks[i].DailyHHMM = FormatHHMM(r.h, r.m))
                => store'.Tasks = [store.Tasks EXCEPT ![i].Prompt = TrimSpace(l.arg),
                                                      ![i].Enabled = TRUE]]_vars

\* a task was created, disabled, and then given again with the time written
\* differently and another prompt: one task, with the first id
C27_Witness ==
    /\ store.last.op = "UpsertDaily" /\ store.last.err = ""
    /\ store.last.time = <<"9", "00">> /\ store.last.arg = " a"
    /\ store.created = 1 /\ calls = 3
    /\ store.Tasks = <<[ID |-> "1", ChatID |-> store.last.chat,
                        DailyHHMM |-> <<"0", "9", ":", "0", "0">>, Prompt |-> "a",
                        Enabled |-> TRUE, LastRunYMD |-> ""]>>

\* ---------------------------------------------------------------- C28
\* the schedules the claim promises for a text with these parts: one per
\* period, morning before afternoon, equal times once, the prompt trimmed
Promised(in) ==
    LET later(h) == IF h < 12 THEN h + 12 ELSE h
        double   == in.period \in {<<"shang", "wu", "xia", "wu">>,
                                   <<"zao", "shang", "wan", "shang">>, <<"zao", "wan">>}
        pm       == in.period \in {<<"xia", "wu">>, <<"wan", "shang">>}
        one(h)   == [HHMM |-> FormatHHMM(h, in.min.m), Prompt |-> TrimText(in.prompt)]
    IN  [ok  |-> TRUE,
         out |-> IF double /\ in.h < 12 THEN <<one(in.h), one(later(in.h))>>
                 ELSE IF pm THEN <<one(later(in.h))>>
                 ELSE <<one(in.h)>>]

\* C28 as stated: for every text mei tian [period] H dian [ban | M fen]
\* prompt with H in 0..23 and M in 0..59, parseDailySchedules returns the
\* schedules of the periods in morning-then-afternoon order with the trimmed
\* prompt: xia wu / wan shang add 12 to an H below 12, ban is minute 30, a
\* double period gives two schedules, equal times are returned once.
C28_DailySchedulesAsWritten == fn.st = "done" => fn.out = Promised(fn.in)

\* ---------------------------------------------------------------- C29
\* the step in which the reader of p's turn reads its turn.completed record
TurnCompletedRead(p) == pc[p] = "run" /\ ~loc[p].done /\ loc'[p].done

HookDecides(p) == pc[p] = "run" /\ loc[p].hook # "" /\ loc'[p].hook = ""

\* the counters of chatKey k in memory m have reached a threshold
OverThreshold(m, k) ==
    \/ getMem(m, k).TokensSinceCompact >= memoryTokenThreshold
    \/ getMem(m, k).TurnsSinceCompact >= memoryTurnThreshold

\* the compaction goroutines started in a step
NewTasks == {t \in tasks' : \A u \in tasks : u.id # t.id}

Distinct(s) == \A i, j \in 1..Len(s) : s[i] = s[j] => i = j

\* the non-empty entries of list that are not in old, trimmed, in their order
RECURSIVE NewOnes(_, _)
NewOnes(old, list) ==
    IF list = <<>> THEN <<>>
    ELSE LET s == TrimSpace(Head(list))
         IN  IF s = "" \/ (\E i \in 1..Len(old) : old[i] = s) THEN NewOnes(old, Tail(list))
             ELSE <<s>> \o NewOnes(Append(old, s), Tail(list))

\* out is the stored list followed by new entries of the result, at most
\* RulesLimit distinct non-empty entries in all
MergedList(stored, new, out) ==
    /\ Len(out) <= RulesLimit /\ Distinct(out) /\ \A i \in 1..Len(out) : out[i] # ""
    /\ Len(out) >= Len(stored) /\ SubSeq(out, 1, Len(stored)) = stored
    /\ LET n == NewOnes(stored, new)
       IN  /\ Len(out) - Len(stored) <= Len(n)
           /\ SubSeq(out, Len(stored) + 1, Len(out)) = SubSeq(n, 1, Len(out) - Len(stored))
           /\ Len(out) < RulesLimit => Len(out) = Len(stored) + Len(n)

\* C31: after a successful compaction the chat's tokensSinceCompact and
\* turnsSinceCompact are 0, compactedAt is updated, rules and prefs hold at
\* most 20 distinct non-empty entries with every stored entry ahead of the
\* new ones, and skillIdeas holds at most 5 entries, all of the new result.
C31_CompactionResetsAndMerges ==
    fn.st = "done" =>
        LET m == fn.in.m
            res == fn.in.res
            out == fn.out
        IN  /\ out.TokensSinceCompact = 0 /\ out.TurnsSinceCompact = 0
            /\ out.CompactedAt > m.CompactedAt
            /\ MergedList(m.Rules, res.Rules, out.Rules)
            /\ MergedList(m.Prefs, res.Prefs, out.Prefs)
            /\ Len(out.SkillIdeas) <= IdeasLimit
            /\ LET n == NewOnes(<<>>, res.SkillIdeas)
               IN  \A i \in 1..Len(out.SkillIdeas) :
                      \E j \in 1..Len(n) : out.SkillIdeas[i] = n[j]

\* C31 witness: the merge reached both caps: 19 rules were stored, the
\* result brought more than one new rule and six ideas
C31_Witness ==
    /\ fn.st = "done"
    /\ Len(fn.in.m.Rules) = RulesLimit - 1
    /\ Len(NewOnes(fn.in.m.Rules, fn.in.res.Rules)) > 1
    /\ Len(fn.out.Rules) = RulesLimit
    /\ Len(fn.in.res.SkillIdeas) = IdeasLimit + 1
    /\ Len(fn.out.SkillIdeas) = IdeasLimit

\* ---------------------------------------------------------------- C32
\* the step in which the compaction task t merges its result into memory
Merges(t) == t.st = "run" /\ [t EXCEPT !.st = "merged"] \in tasks'

\* the turns of t's chat that were accounted since t was started
TurnsDuring(t) == getMem(mem, t.key).TurnsSinceCompact - t.turnsNow

StopCalled(p, h) ==
    /\ sess' # <<>>        \* the program goes on
    /\ \/ pc[p] = "stopOld" /\ loc[p].old = h /\ pc'[p] # "stopOld"
       \/ pc[p] = "cancelStop" /\ loc[p].s = h /\ pc'[p] # "cancelStop"

\* q runs a subprocess that sendExec started for handle h
Subprocess(q, h) == pc[q] \in {"cmdStarted", "run"} /\ loc[q].s = h

\* C33: when Stop is called on a structured handle (by newWithID or by
\* Cancel) while a subprocess that sendExec started for the handle is
\* running, the subprocess is sent the interrupt.
C33_StopInterruptsRunningTurn ==
    [][\A p \in Procs, h \in SIdx :
          (StopCalled(p, h) /\ sess[h].kind = "exec") =>
             \A q \in Procs : Subprocess(q, h) => q \in signalled']_vars

\* ---------------------------------------------------------------- C34
\* the step in which the consumer of handle h receives an event
Receives(h) ==
    /\ h \in pumping /\ sess[h].events # <<>> /\ Len(sess') = Len(sess)
    /\ sess'[h].events = Tail(sess[h].events)

\* C34: the consumer of a handle receives the agent messages of the
\* handle's stdout in the order in which the reader read them: the message
\* it receives was read after every message it has received before, and
\* before every message that still waits in the channel.
C34_ReceivedInReadOrder ==
    [][\A h \in SIdx :
          (Receives(h) /\ LineNo(Head(sess[h].events)) # 0) =>
             LET no == LineNo(Head(sess[h].events))
             IN  /\ no > sess[h].got
                 /\ \A i \in 2..Len(sess[h].events) :
                       LineNo(sess[h].events[i]) # 0 => LineNo(sess[h].events[i]) > no]_vars

\* C34 witness: the consumer has received the second message of a turn
\* while a later message waits in the channel behind an event of stderr
C34_Witness ==
    \E h \in SIdx :
        /\ sess[h].got = MaxLines + 2 + 2
        /\ \E i, j \in 1..Len(sess[h].events) :
              /\ i < j
              /\ sess[h].events[i].Type = "stderr"
              /\ LineNo(sess[h].events[j]) > sess[h].got

\* ---------------------------------------------------------------- C35
\* C35: the scheduler hands a task to a goroutine at most once per local
\* calendar day, and only a task that its tick found enabled, of an
\* allow-listed chat and due in the minute of the tick; when the goroutine
\* is started the store already holds the day as the task's last-run day.
C35_OncePerDayWhenDue ==
    /\ \A i, j \in 1..Len(fn.out) :
          (i < j /\ fn.out[i].task.ID = fn.out[j].task.ID)
             => fn.out[i].now.day # fn.out[j].now.day
    /\ \A i \in 1..Len(fn.out) :
          LET e == fn.out[i]
          IN  /\ e.task.Enabled
              /\ e.task.ChatID \in Allowlist
              /\ e.task.DailyHHMM = FormatHHMM(e.now.h, e.now.m)
              /\ e.marked \subseteq {YMD[e.now.day]}

\* C35 witness: a task was handed over on the first day and again on the
\* second; a further tick in the same minute of the second day is passing
\* it over while the turn of that day has not been sent yet
C35_Witness ==
    /\ fn.st = "loop" /\ fn.in.i = 2
    /\ \E i, j \in 1..Len(fn.out) :
          /\ fn.out[i].task.ID = fn.out[j].task.ID
          /\ fn.out[i].now.day = 1 /\ fn.out[j].now.day = 2
          /\ ~fn.out[j].sent
          /\ fn.in.now = fn.out[j].now
          /\ fn.in.tasks[1].ID = fn.out[j].task.ID
          /\ fn.in.tasks[1].LastRunYMD = YMD[2]

\* ---------------------------------------------------------------- C36
\* the step emits an Event on handle h: the channel gets one more Event at
\* its end, or emit finds it full and drops the Event
Emits(h) ==
    /\ h \in SIdx /\ Len(sess') = Len(sess)
    /\ \/ Len(sess'[h].events) = Len(sess[h].events) + 1
       \/ sess'[h].dropped # sess[h].dropped

\* C36: an Event is emitted on a handle only while a Send of a turn on that
\* handle has not returned: when sendExec returns, the readers of the
\* turn's standard output and standard error have emitted all they emit.
C36_NoEventAfterSendReturned ==
    [][\A h \in SIdx :
          (sess[h].kind = "exec" /\ Emits(h)) => \E p \in Procs : pc[p] = "run" /\ loc[p].s = h]_vars

\* ---------------------------------------------------------------- C37
\* C37: no goroutine of an interactive handle sends on the Events channel
\* after it has been closed, and the exit Event is the last Event in the
\* channel: no output or read-error Event is behind it.
C37_ExitLastNoneAfterClose ==
    /\ fn.st # "panic"
    /\ \A h \in SIdx :
          sess[h].kind = "pty" =>
             \A i \in 1..(Len(sess[h].events) - 1) : sess[h].events[i].Type # "exit"

\* ---------------------------------------------------------------- C38
\* the snapshot file the save under way (or the last save) is for
Snapshot(d) == IF d.save = "state" THEN d.state ELSE d.memory

\* C38: once the os.WriteFile of a save has failed, the snapshot file stays
\* as it was when the save began (the .tmp file is not renamed over it),
\* and the failure leaves the maps in memory as they are.
C38_FailedSaveKeepsSnapshot ==
    [][/\ disk'.failed => Snapshot(disk') = disk'.prev
       /\ (~disk.failed /\ disk'.failed) => (threads' = threads /\ mem' = mem)]_vars

\* ---------------------------------------------------------------- C39
\* p's GetOrCreate found no Session for its chat and has created one, with
\* its handle, in NewResume; it is about to install it or has just done so
HasCreated(p) ==
    /\ pc[p] \in {"install", "stopOld"}
    /\ ~loc[p].fresh /\ loc[p].ret = "lock"

\* C39: of the callers whose GetOrCreate finds no Session for a chat, one
\* creates the Session and its handle; no two of them each create one.
C39_OneSessionForConcurrentCallers ==
    \A p, q \in Procs :
        (p # q /\ HasCreated(p) /\ HasCreated(q) /\ loc[p].chat = loc[q].chat)
           => loc[p].new = loc[q].new

====
